---- MODULE Spec2Model ----
(***************************************************************************)
(* Model of wc_env_manager.core.WcEnvManager (KarrLab/wc_env).             *)
(*                                                                         *)
(* Strings that the code inspects character by character (paths, process   *)
(* output, container names) are sequences of one-character strings, so     *)
(* that str.startswith, os.path.abspath, os.path.relpath, os.path.join,    *)
(* the [0:-1] slice and re.search are computed the way Python computes     *)
(* them.                                                                   *)
(*                                                                         *)
(* SpecPath       : the two path conversions over bounded mount tables.    *)
(* SpecContainers : listing, selecting and creating containers.            *)
(* Spec           : provisioning of the current container (setup, copies,  *)
(*                  SSH probe, package installs).                          *)
(* SpecRuntime    : images (set, pull, build, remove) and the life of the  *)
(*                  current container (create, exec, stats, stop, remove,  *)
(*                  removal by another process).                           *)
(* SpecCredentials: the credential check and the credential requirement.   *)
(***************************************************************************)
EXTENDS Integers, Sequences, FiniteSets, TLC

VARIABLES
    \* path conversion
    paths_to_mount_to_docker_container, \* mount table, in dict iteration order: <<[host, bind]>>
    cwd,                                \* os.getcwd() of the host process
    path_arg,                           \* argument of the path conversion under study
    path_call,                          \* "none" | "h2c" | "c2h" | "rt": conversion performed so far
    path_res,                           \* outcome of the first conversion
    rt_res,                             \* outcome of converting path_res.ret back
    \* the Docker daemon and the host
    daemon,                             \* containers.list(all=True): <<[name, read, running, files, known_hosts]>>
    now,                                \* datetime.now(), in minutes
    host_config,                        \* the host's ~/.wc: [isdir, has_paths_yml, paths]
    debug,                              \* __debug__: FALSE when Python runs with -O
    images,                             \* images of the daemon: <<[id, tags]>>, tags a set of 'repo:tag'
    \* the WcEnvManager object
    args,                               \* arguments of WcEnvManager(...): None or <<value>> for each
    docker_image,                       \* self._docker_image: None or the handle <<id, tags>>
    docker_container_status,            \* self._docker_container.status: the status the handle holds
    docker_container_name_format,
    docker_container,                   \* self._docker_container: None or the container's name
    python_packages_from_pypi,
    python_packages_from_github,
    python_packages_from_host,
    paths_to_copy_to_docker_container,  \* <<[host, container]>>
    \* the call in progress or last made
    pc,                                 \* "idle" or the step setup_docker_container is about to run
    last_call,                          \* [op, upgrade, arg]: the method last called, its check or force argument
    status,                             \* "none" | "running" | "returned" | "raised"
    failed_step,                        \* the step of setup_docker_container that raised
    raised,                             \* the exception the call raised
    ret,                                \* a Boolean return value: "True" | "False" | "None"
    ret_container,                      \* a container return value: None or the container's name
    ret_value,                          \* any other return value: None, a list of names, <<output, exit_code>>
    log,                                \* capability calls made by the call, in order
    host_temps,                         \* temporary files of the call that exist on the host
    calls,                              \* methods called on the session so far
    \* credentials
    credentials,                        \* the configured credential files: None or <<path>> for each
    host_files                          \* the host's files: path -> "missing" | "unreadable" | "readable"

pathVars == <<paths_to_mount_to_docker_container, cwd, path_arg, path_call, path_res, rt_res>>

envVars == <<daemon, now, host_config, debug>>

configVars == <<args, docker_container_name_format, python_packages_from_pypi, python_packages_from_github,
                python_packages_from_host, paths_to_copy_to_docker_container>>

callVars == <<pc, last_call, status, failed_step, raised, ret, ret_container, ret_value, log, host_temps>>

clientVars == <<images, docker_image, docker_container_status>>

sessionVars == <<envVars, configVars, docker_container, callVars, calls, clientVars>>

credVars == <<credentials, host_files>>

vars == <<pathVars, sessionVars, credVars>>

-----------------------------------------------------------------------------
(* Bounds *)

\* longest input path, in components
MaxDepth == 3

\* most entries in a mount table
MaxMounts == 2

\* most containers on the daemon
MaxContainers == 2

\* last minute the clock reaches
MaxClock == 1

\* most github.com lines of one kind in known_hosts
MaxKnownHosts == 2

\* most calls of create_docker_container, setup_docker_container,
\* copy_path_to_docker_container and test_github_ssh_access_in_docker_container
\* in one session
MaxCalls == 2

-----------------------------------------------------------------------------
(* Python values *)

\* None; no string, path or name of the model is empty
None == <<>>

NoError == "none"

-----------------------------------------------------------------------------
(* str / os.path on character sequences (posixpath) *)

sep == "/"

curdir == <<".">>

pardir == <<".", ".">>

\* str.startswith
startswith(s, prefix) ==
    /\ Len(prefix) <= Len(s)
    /\ SubSeq(s, 1, Len(prefix)) = prefix

RECURSIVE SplitAcc(_, _, _, _)
SplitAcc(s, i, cur, acc) ==
    IF i > Len(s) THEN Append(acc, cur)
    ELSE IF s[i] = sep THEN SplitAcc(s, i + 1, <<>>, Append(acc, cur))
    ELSE SplitAcc(s, i + 1, Append(cur, s[i]), acc)

\* str.split('/'): '/a/' -> ['', 'a', '']
split(s) == SplitAcc(s, 1, <<>>, <<>>)

RECURSIVE JoinSep(_)
\* '/'.join(comps)
JoinSep(comps) ==
    IF Len(comps) = 0 THEN <<>>
    ELSE IF Len(comps) = 1 THEN comps[1]
    ELSE comps[1] \o <<sep>> \o JoinSep(Tail(comps))

\* posixpath.isabs
isabs(p) == startswith(p, <<sep>>)

\* posixpath.join(a, b)
join(a, b) ==
    IF startswith(b, <<sep>>) THEN b
    ELSE IF Len(a) = 0 \/ a[Len(a)] = sep THEN a \o b
    ELSE a \o <<sep>> \o b

RECURSIVE NormComps(_, _, _, _)
\* the component loop of posixpath.normpath
NormComps(comps, i, new_comps, initial_slashes) ==
    IF i > Len(comps) THEN new_comps
    ELSE LET comp == comps[i] IN
         IF comp = <<>> \/ comp = curdir
         THEN NormComps(comps, i + 1, new_comps, initial_slashes)
         ELSE IF \/ comp # pardir
                 \/ (initial_slashes = 0 /\ Len(new_comps) = 0)
                 \/ (Len(new_comps) > 0 /\ new_comps[Len(new_comps)] = pardir)
         THEN NormComps(comps, i + 1, Append(new_comps, comp), initial_slashes)
         ELSE IF Len(new_comps) > 0
         THEN NormComps(comps, i + 1, SubSeq(new_comps, 1, Len(new_comps) - 1), initial_slashes)
         ELSE NormComps(comps, i + 1, new_comps, initial_slashes)

\* posixpath.normpath
normpath(path) ==
    IF Len(path) = 0 THEN curdir
    ELSE LET initial_slashes ==
                 IF ~startswith(path, <<sep>>) THEN 0
                 ELSE IF startswith(path, <<sep, sep>>) /\ ~startswith(path, <<sep, sep, sep>>)
                 THEN 2
                 ELSE 1
             body == JoinSep(NormComps(split(path), 1, <<>>, initial_slashes))
             out == [k \in 1..initial_slashes |-> sep] \o body
         IN IF Len(out) = 0 THEN curdir ELSE out

\* posixpath.abspath
abspath(path) ==
    IF isabs(path) THEN normpath(path) ELSE normpath(join(cwd, path))

\* posixpath.expanduser, in a process whose HOME is /a
expanduser(path) ==
    IF path = <<"~">> \/ startswith(path, <<"~", sep>>)
    THEN <<sep, "a">> \o SubSeq(path, 2, Len(path))
    ELSE path

\* [x for x in s.split('/') if x]
NonEmptyComps(s) == SelectSeq(split(s), LAMBDA x : x # <<>>)

RECURSIVE CommonLen(_, _, _)
\* len(commonprefix([a, b])) for two lists
CommonLen(a, b, i) ==
    IF i < Len(a) /\ i < Len(b) /\ a[i + 1] = b[i + 1] THEN CommonLen(a, b, i + 1) ELSE i

\* posixpath.relpath(path, start)
relpath(path, start) ==
    LET start_list == NonEmptyComps(abspath(start))
        path_list == NonEmptyComps(abspath(path))
        i == CommonLen(start_list, path_list, 0)
        rel_list == [k \in 1..(Len(start_list) - i) |-> pardir]
                        \o SubSeq(path_list, i + 1, Len(path_list))
    IN IF Len(rel_list) = 0 THEN curdir ELSE JoinSep(rel_list)

-----------------------------------------------------------------------------
(* WcEnvManager.convert_host_to_container_path /                           *)
(* WcEnvManager.convert_container_to_host_path                             *)

\* raise WcEnvManagerError('{} is not mounted into the container')
NotMounted == [raised |-> "WcEnvManagerError", ret |-> None, entry |-> 0]

Returned(p, i) == [raised |-> NoError, ret |-> p, entry |-> i]

NoResult == [raised |-> NoError, ret |-> None, entry |-> 0]

RECURSIVE HostLoopSkipsLast(_, _, _)
\* mutant: the loop stops one entry early
HostLoopSkipsLast(mounts, host_path, i) ==
    IF i >= Len(mounts) THEN NotMounted
    ELSE LET host_mount_path == abspath(mounts[i].host)
             container_mount_path == mounts[i].bind
         IN IF startswith(host_path, host_mount_path)
            THEN Returned(join(container_mount_path, relpath(host_path, host_mount_path)), i)
            ELSE HostLoopSkipsLast(mounts, host_path, i + 1)

RECURSIVE HostLoop(_, _, _)
\* for host_mount_path, container_mount_attrs in ....items(): the first entry
\* whose host path host_path startswith decides
HostLoop(mounts, host_path, i) ==
    IF i > Len(mounts) THEN NotMounted
    ELSE LET host_mount_path == abspath(mounts[i].host)
             container_mount_path == mounts[i].bind
         IN IF startswith(host_path, host_mount_path)
            THEN Returned(join(container_mount_path, relpath(host_path, host_mount_path)), i)
            ELSE HostLoop(mounts, host_path, i + 1)

\* mutant: the last entry of the mount table is never tried
convert_host_to_container_path_skips_last(host_path) ==
    HostLoopSkipsLast(paths_to_mount_to_docker_container, abspath(host_path), 1)

convert_host_to_container_path(host_path) ==
    HostLoop(paths_to_mount_to_docker_container, abspath(host_path), 1)

RECURSIVE ContainerLoop(_, _, _)
ContainerLoop(mounts, container_path, i) ==
    IF i > Len(mounts) THEN NotMounted
    ELSE LET host_mount_path == mounts[i].host
             container_mount_path == mounts[i].bind
         IN IF startswith(container_path, container_mount_path)
            THEN Returned(join(host_mount_path, relpath(container_path, container_mount_path)), i)
            ELSE ContainerLoop(mounts, container_path, i + 1)

convert_container_to_host_path(container_path) ==
    ContainerLoop(paths_to_mount_to_docker_container, container_path, 1)

-----------------------------------------------------------------------------
(* Exceptions, process results and the record of capability calls *)

\* no exception pending
NoErr == [type |-> "none", msg |-> "", detail |-> <<>>]

Exc(type, msg, detail) == [type |-> type, msg |-> msg, detail |-> detail]

\* WcEnvUser.root.name
root == "root"

\* WcEnvUser.container_user.name
container_user == "container_user"

\* s[0:-1]
DropLast(s) == SubSeq(s, 1, Len(s) - 1)

\* re.search(pattern, s) is not None, for a pattern without metacharacters
contains(s, pattern) ==
    \E k \in 0..(Len(s) - Len(pattern)) : SubSeq(s, k + 1, k + Len(pattern)) = pattern

nl == "\n"

\* an entry of the call record; every entry has the same fields
Ev(ev, step) ==
    [ev |-> ev, step |-> step, cmd |-> <<>>, user |-> "", code |-> 0, output |-> <<>>,
     path |-> <<>>, overwrite |-> FALSE, exists |-> FALSE, files |-> {}, err |-> NoErr]

\* mutant: a call on a container that is gone is not refused
ContainerCallUnchecked(w, method) ==
    IF w.container = None
    THEN [w EXCEPT !.raised = Exc("AttributeError", "'NoneType' object has no attribute", <<method>>)]
    ELSE w

\* self._docker_container.<method>(...): the attribute lookup fails on None, and
\* the daemon answers 404 for a container that was removed
ContainerCall(w, method) ==
    IF w.container = None
    THEN [w EXCEPT !.raised = Exc("AttributeError", "'NoneType' object has no attribute", <<method>>)]
    ELSE IF ~w.present
    THEN [w EXCEPT !.raised = Exc("docker.errors.NotFound", "No such container", <<w.container>>)]
    ELSE w

\* self._docker_container.exec_run(cmd, ..., user=container_user.name)
\* res is what the runtime answers: [output, exit_code]
exec_run(w, step, cmd, user, res) ==
    IF ContainerCall(w, "exec_run").raised # NoErr
    THEN ContainerCall(w, "exec_run")
    ELSE IF ~w.running
    THEN [w EXCEPT
            !.log = Append(@, [Ev("exec", step) EXCEPT !.cmd = cmd, !.user = user, !.code = -1]),
            !.raised = Exc("docker.errors.APIError", "container is not running", <<>>)]
    ELSE [w EXCEPT
            !.log = Append(@, [Ev("exec", step) EXCEPT !.cmd = cmd, !.user = user,
                                                      !.code = res.exit_code, !.output = res.output]),
            !.out = res.output,
            !.code = res.exit_code]

\* the container's answer to 'pwd'
PwdResult == [output |-> <<sep, nl>>, exit_code |-> 0]

\* raise WcEnvManagerError('Command not successfully executed in Docker container: ...')
\* w2: the world after the 'pwd' that fills in the working directory
RaiseCommandError(w2, cmd, exit_code, output) ==
    IF w2.raised # NoErr THEN w2
    ELSE [w2 EXCEPT
            !.raised = Exc("WcEnvManagerError",
                           "Command not successfully executed in Docker container",
                           <<cmd, DropLast(w2.out), exit_code, output>>)]

\* mutant: a non-zero exit code raises whatever check is
CheckExitCodeAlways(w1, step, cmd, check, user) ==
    IF w1.raised # NoErr THEN w1
    ELSE IF w1.code # 0
    THEN RaiseCommandError(exec_run(w1, step, <<"pwd">>, user, PwdResult), cmd, w1.code, w1.out)
    ELSE [w1 EXCEPT !.out = DropLast(w1.out)]

\* if check and result.exit_code != 0: raise ...; return (output[0:-1], exit_code)
CheckExitCode(w1, step, cmd, check, user) ==
    IF w1.raised # NoErr THEN w1
    ELSE IF check /\ w1.code # 0
    THEN RaiseCommandError(exec_run(w1, step, <<"pwd">>, user, PwdResult), cmd, w1.code, w1.out)
    ELSE [w1 EXCEPT !.out = DropLast(w1.out)]

\* WcEnvManager.run_process_in_docker_container(cmd, check=check, container_user=user)
\* returns (output[0:-1], exit_code) in w.out, w.code
run_process_in_docker_container(w, step, cmd, check, user, res) ==
    CheckExitCode(exec_run(w, step, cmd, user, res), step, cmd, check, user)

\* WcEnvManager.run_process_on_host(['docker', 'cp', local_path, name:container_path])
\* subprocess.run(..., check=True); ok is whether docker cp exits with 0
docker_cp(w, step, local_path, container_path, ok) ==
    IF ok
    THEN [w EXCEPT
            !.log = Append(@, [Ev("cp", step) EXCEPT !.cmd = <<"docker", "cp", local_path>>,
                                                    !.path = container_path]),
            !.files = @ \cup {container_path}]
    ELSE [w EXCEPT
            !.log = Append(@, [Ev("cp", step) EXCEPT !.cmd = <<"docker", "cp", local_path>>,
                                                    !.path = container_path, !.code = 1]),
            !.raised = Exc("subprocess.CalledProcessError", "docker cp", <<container_path>>)]

\* 'bash -c "if [ -f {0} ] || [ -d {0} ]; then echo 1; fi"'.format(container_path)
ExistsProbeCmd(container_path) ==
    <<"bash -c if [ -f {0} ] || [ -d {0} ]; then echo 1; fi", container_path>>

\* what the probe prints in a container holding `files`
ExistsProbeResult(files, container_path, exit_code) ==
    [output |-> IF exit_code = 0 /\ container_path \in files THEN <<"1", nl>> ELSE <<>>,
     exit_code |-> exit_code]

AlreadyExists(container_path) ==
    Exc("WcEnvManagerError", "File {} already exists", <<container_path>>)

\* the call of copy_path_to_docker_container enters the call record
CopyEnter(w, step, container_path, overwrite) ==
    [w EXCEPT !.log = Append(@, [Ev("enter_copy", step) EXCEPT
        !.path = container_path, !.overwrite = overwrite,
        !.exists = (container_path \in w.files), !.files = w.files])]

\* its return or exception enters the call record
CopyExit(w, step, container_path) ==
    [w EXCEPT !.log = Append(@, [Ev("exit_copy", step) EXCEPT
        !.path = container_path, !.err = w.raised, !.files = w.files])]

\* mutant: the test of overwrite is inverted
CopyGateInverted(w1, step, local_path, container_path, overwrite, cp_ok) ==
    IF w1.raised # NoErr THEN w1
    ELSE IF w1.out # <<>> /\ overwrite
    THEN [w1 EXCEPT !.raised = AlreadyExists(container_path)]
    ELSE docker_cp(w1, step, local_path, container_path, cp_ok)

\* if is_path and not overwrite: raise ...; self.run_process_on_host(['docker', 'cp', ...])
\* w1: the world after the existence probe, is_path in w1.out
CopyGate(w1, step, local_path, container_path, overwrite, cp_ok) ==
    IF w1.raised # NoErr THEN w1
    ELSE IF w1.out # <<>> /\ ~overwrite
    THEN [w1 EXCEPT !.raised = AlreadyExists(container_path)]
    ELSE docker_cp(w1, step, local_path, container_path, cp_ok)

\* WcEnvManager.copy_path_to_docker_container
\* e: the exit code of the existence probe and whether docker cp succeeds
copy_path_to_docker_container(w, step, local_path, container_path, overwrite, user, e) ==
    CopyExit(
        CopyGate(
            run_process_in_docker_container(
                CopyEnter(w, step, container_path, overwrite), step,
                ExistsProbeCmd(container_path), TRUE, user,
                ExistsProbeResult(w.files, container_path, e.probe_code)),
            step, local_path, container_path, overwrite, e.cp_ok),
        step, container_path)

CopyEnvs == [probe_code : {0, 1}, cp_ok : BOOLEAN]

-----------------------------------------------------------------------------
(* SSH known-hosts entry and reachability probe *)

SshProbeCmd == <<"ssh -T git@github.com">>

\* r'successfully authenticated'
AuthenticatedPattern ==
    <<"s", "u", "c", "c", "e", "s", "s", "f", "u", "l", "l", "y", " ",
      "a", "u", "t", "h", "e", "n", "t", "i", "c", "a", "t", "e", "d">>

\* mutant: the probe takes exit code 0 for success
ProbeVerdictZero(w1) ==
    IF w1.raised # NoErr THEN w1
    ELSE [w1 EXCEPT !.ret = IF w1.code = 0 /\ contains(w1.out, AuthenticatedPattern)
                            THEN "True" ELSE "False"]

\* return exit_code == 1 and re.search(r'successfully authenticated', message) is not None
\* w1: the world after the probe command, (message, exit_code) in w1.out, w1.code
ProbeVerdict(w1) ==
    IF w1.raised # NoErr THEN w1
    ELSE [w1 EXCEPT !.ret = IF w1.code = 1 /\ contains(w1.out, AuthenticatedPattern)
                            THEN "True" ELSE "False"]

\* WcEnvManager.test_github_ssh_access_in_docker_container
test_github_ssh_access_in_docker_container(w, step, res) ==
    ProbeVerdict(run_process_in_docker_container(w, step, SshProbeCmd, FALSE, root, res))

KnownHostsCmds ==
    [touch |-> <<"bash -c touch ~/.ssh/known_hosts">>,
     sed |-> <<"bash -c sed -i '/github.com ssh-rsa/d' ~/.ssh/known_hosts">>,
     keyscan |-> <<"bash -c ssh-keyscan github.com >> ~/.ssh/known_hosts">>]

NoOutput(exit_code) == [output |-> <<>>, exit_code |-> exit_code]

\* sed -i '/github.com ssh-rsa/d' has run: the ssh-rsa lines are gone
SedEffect(w) ==
    IF w.raised # NoErr THEN w ELSE [w EXCEPT !.known_hosts.rsa = 0]

\* if upgrade: sed ...
SedStage(w1, step, upgrade, e) ==
    IF w1.raised # NoErr \/ ~upgrade THEN w1
    ELSE SedEffect(run_process_in_docker_container(w1, step, KnownHostsCmds.sed, TRUE, root, NoOutput(e.sed)))

\* ssh-keyscan github.com >> known_hosts has run: one ssh-rsa line more, and
\* one line more of the other key types ssh-keyscan asks for
KeyscanEffect(w) ==
    IF w.raised # NoErr THEN w
    ELSE [w EXCEPT !.known_hosts.rsa = @ + 1, !.known_hosts.other = @ + 1]

KeyscanStage(w2, step, e) ==
    IF w2.raised # NoErr THEN w2
    ELSE KeyscanEffect(run_process_in_docker_container(w2, step, KnownHostsCmds.keyscan, TRUE, root,
                                                       NoOutput(e.keyscan)))

\* WcEnvManager.install_github_ssh_host_in_docker_container
\* known_hosts counts the github.com lines of ~/.ssh/known_hosts: ssh-rsa lines
\* and lines of other key types
install_github_ssh_host_in_docker_container(w, step, upgrade, e) ==
    KeyscanStage(
        SedStage(
            run_process_in_docker_container(w, step, KnownHostsCmds.touch, TRUE, root, NoOutput(e.touch)),
            step, upgrade, e),
        step, e)

KnownHostsEnvs == [touch : {0, 1}, sed : {0, 1}, keyscan : {0, 1}]

-----------------------------------------------------------------------------
(* Package installation *)

PipCmd(container_temp_filename, upgrade, process_dependency_links) ==
    <<"pip{python_version_in_container}", "install", "-r", container_temp_filename>>
        \o (IF upgrade THEN <<"-U">> ELSE <<>>)
        \o (IF process_dependency_links THEN <<"--process-dependency-links">> ELSE <<>>)

\* the requirements file tempfile.mkstemp(suffix='.txt') makes for one install call
HostTemp(step) == <<"mkstemp", step>>

\* file, host_temp_filename = tempfile.mkstemp(suffix='.txt'); os.write; os.close
InstallMkstemp(w, step) == [w EXCEPT !.host_temps = @ \cup {HostTemp(step)}]

\* container_temp_filename, _ = self.run_process_in_docker_container('mktemp', ...)
\* the file mktemp made is in the container; the code holds the name it read
InstallMktemp(w1, tmp) ==
    IF w1.raised # NoErr THEN w1
    ELSE [w1 EXCEPT !.files = @ \cup {tmp}, !.container_temp_filename = w1.out]

\* self.copy_path_to_docker_container(host_temp_filename, container_temp_filename)
InstallCopy(w, step, e) ==
    IF w.raised # NoErr THEN w
    ELSE copy_path_to_docker_container(w, step, HostTemp(step), w.container_temp_filename, TRUE, root, e.copy)

\* self.run_process_in_docker_container(['pip', 'install', '-r', ...] ...)
InstallPip(w, step, upgrade, process_dependency_links, e) ==
    IF w.raised # NoErr THEN w
    ELSE run_process_in_docker_container(
             w, step, PipCmd(w.container_temp_filename, upgrade, process_dependency_links),
             TRUE, root, NoOutput(e.pip))

\* os.remove(host_temp_filename)
InstallRemoveHostTemp(w, step) ==
    IF w.raised # NoErr THEN w
    ELSE [w EXCEPT !.host_temps = @ \ {HostTemp(step)}]

\* rm has run in the container
RmEffect(w) ==
    IF w.raised # NoErr THEN w
    ELSE [w EXCEPT !.files = @ \ {w.container_temp_filename}]

\* self.run_process_in_docker_container(['rm', container_temp_filename], ...)
InstallRm(w, step, e) ==
    IF w.raised # NoErr THEN w
    ELSE RmEffect(run_process_in_docker_container(w, step, <<"rm", w.container_temp_filename>>,
                                                  TRUE, root, NoOutput(e.rm)))

\* WcEnvManager.install_python_packages_in_docker_container
\* e: the name mktemp prints, the exit codes of mktemp, pip and rm, and the
\* outcome of the copy
install_python_packages_in_docker_container(w, step, packages, upgrade, process_dependency_links, e) ==
    InstallRm(
        InstallRemoveHostTemp(
            InstallPip(
                InstallCopy(
                    InstallMktemp(
                        run_process_in_docker_container(
                            InstallMkstemp(w, step), step, <<"mktemp">>, TRUE, root,
                            [output |-> IF e.mktemp = 0 THEN e.tmp \o <<nl>> ELSE <<>>,
                             exit_code |-> e.mktemp]),
                        e.tmp),
                    step, e),
                step, upgrade, process_dependency_links, e),
            step),
        step, e)

\* names mktemp prints, in the order it comes to them
TmpNames == <<<<sep, "t", "1">>, <<sep, "t", "2">>>>

\* the name mktemp prints in a container holding `files`: one not in use
FreshTmp(files) ==
    IF \E k \in 1..Len(TmpNames) : TmpNames[k] \notin files
    THEN {TmpNames[CHOOSE k \in 1..Len(TmpNames) :
                       TmpNames[k] \notin files /\ \A j \in 1..(k - 1) : TmpNames[j] \in files]}
    ELSE {}

InstallEnvs(files) ==
    [tmp : FreshTmp(files), mktemp : {0, 1}, copy : CopyEnvs, pip : {0, 1}, rm : {0, 1}]

-----------------------------------------------------------------------------
(* Configuration files *)

\* what 'bash -c "realpath ~"' prints for root
ContainerHome == <<sep, "r">>

\* posixpath.dirname
dirname(p) ==
    LET cut == CHOOSE i \in 0..Len(p) :
                   /\ (i = 0 \/ p[i] = sep)
                   /\ \A j \in (i + 1)..Len(p) : p[j] # sep
        head == SubSeq(p, 1, cut)
        RECURSIVE rstrip(_)
        rstrip(h) == IF Len(h) > 0 /\ h[Len(h)] = sep THEN rstrip(DropLast(h)) ELSE h
    IN IF head # <<>> /\ (\E k \in 1..Len(head) : head[k] # sep) THEN rstrip(head) ELSE head

\* if abs_dest[0:2] == '~/': abs_dest = os.path.join(container_user_dirname, abs_dest[2:])
ThirdPartyDest(container_user_dirname, abs_dest) ==
    IF SubSeq(abs_dest, 1, 2) = <<"~", sep>>
    THEN join(container_user_dirname, SubSeq(abs_dest, 3, Len(abs_dest)))
    ELSE abs_dest

\* mkdir -p has run in the container
MkdirEffect(w, abs_dest_dir) ==
    IF w.raised # NoErr THEN w ELSE [w EXCEPT !.files = @ \cup {abs_dest_dir}]

\* self.copy_path_to_docker_container(abs_src, abs_dest, container_user=root, overwrite=overwrite)
ThirdPartyCopy(w, step, path, overwrite, e) ==
    IF w.raised # NoErr THEN w
    ELSE copy_path_to_docker_container(
             w, step, <<"~/.wc/third_party", path.src>>,
             ThirdPartyDest(w.container_user_dirname, path.dest), overwrite, root, e.copy)

RECURSIVE ThirdPartyLoop(_, _, _, _, _, _)
\* for rel_src, abs_dest in paths.items(): mkdir -p dirname; copy
ThirdPartyLoop(w, step, paths, i, overwrite, es) ==
    IF i > Len(paths) \/ w.raised # NoErr THEN w
    ELSE ThirdPartyLoop(
             ThirdPartyCopy(
                 MkdirEffect(
                     run_process_in_docker_container(
                         w, step,
                         <<"mkdir", "-p", dirname(ThirdPartyDest(w.container_user_dirname, paths[i].dest))>>,
                         TRUE, root, NoOutput(es[i].mkdir)),
                     dirname(ThirdPartyDest(w.container_user_dirname, paths[i].dest))),
                 step, paths[i], overwrite, es[i]),
             step, paths, i + 1, overwrite, es)

\* with open(filename, 'r') as file: paths = yaml.load(file); for ...
ThirdPartyStage(w2, step, host, overwrite, e) ==
    IF w2.raised # NoErr THEN w2
    ELSE IF ~host.has_paths_yml
    THEN [w2 EXCEPT !.raised = Exc("FileNotFoundError", "third_party/paths.yml", <<>>)]
    ELSE ThirdPartyLoop(w2, step, host.paths, 1, overwrite, e.items)

\* container_user_dirname, _ = self.run_process_in_docker_container('bash -c "realpath ~"', ...)
\* if os.path.isdir(host_config_dirname): copy ~/.wc to <container_user_dirname>/.wc; ...
ConfigDirStage(w1, step, host, overwrite, e) ==
    IF w1.raised # NoErr \/ ~host.isdir THEN w1
    ELSE ThirdPartyStage(
             copy_path_to_docker_container(
                 [w1 EXCEPT !.container_user_dirname = w1.out], step, <<"~/.wc">>,
                 join(w1.out, <<".", "w", "c">>), overwrite, root, e.copy),
             step, host, overwrite, e)

\* WcEnvManager.copy_config_files_to_docker_container
\* host: the host's ~/.wc: [isdir, has_paths_yml, paths]
copy_config_files_to_docker_container(w, step, host, overwrite, e) ==
    ConfigDirStage(
        run_process_in_docker_container(
            w, step, <<"bash -c realpath ~">>, TRUE, root,
            [output |-> IF e.realpath = 0 THEN ContainerHome \o <<nl>> ELSE <<>>,
             exit_code |-> e.realpath]),
        step, host, overwrite, e)

RECURSIVE CopyPathsLoop(_, _, _, _, _, _)
\* for path in self.paths_to_copy_to_docker_container.values(): copy
CopyPathsLoop(w, step, paths, i, overwrite, es) ==
    IF i > Len(paths) \/ w.raised # NoErr THEN w
    ELSE CopyPathsLoop(
             copy_path_to_docker_container(w, step, paths[i].host, paths[i].container, overwrite, root, es[i]),
             step, paths, i + 1, overwrite, es)

-----------------------------------------------------------------------------
(* Container names: datetime.strftime / datetime.strptime *)

Digits == <<"0", "1", "2", "3", "4", "5", "6", "7", "8", "9">>

IsDigit(c) == \E d \in 1..10 : Digits[d] = c

\* the directive of the name format: minute as a zero-padded decimal number
MinuteDirective == "%M"

\* str.lower on the letters that occur in names
lower(c) == IF c = "W" THEN "w" ELSE c

RECURSIVE StrftimeItems(_, _, _)
StrftimeItems(format, i, t) ==
    IF i > Len(format) THEN <<>>
    ELSE (IF format[i] = MinuteDirective
          THEN <<Digits[(t \div 10) + 1], Digits[(t % 10) + 1]>>
          ELSE <<format[i]>>) \o StrftimeItems(format, i + 1, t)

\* t.strftime(format)
strftime(t, format) == StrftimeItems(format, 1, t)

RECURSIVE StrptimeMatch(_, _, _, _)
\* where the regular expression _strptime builds from format[i..] stops
\* matching s from position j (-1: no match). %M is ([0-5]\d|\d); other
\* characters match themselves, ignoring case.
StrptimeMatch(format, i, s, j) ==
    IF i > Len(format) THEN j
    ELSE IF format[i] = MinuteDirective
    THEN LET two == IF /\ j + 1 <= Len(s)
                       /\ s[j] \in {"0", "1", "2", "3", "4", "5"}
                       /\ IsDigit(s[j + 1])
                    THEN StrptimeMatch(format, i + 1, s, j + 2)
                    ELSE -1
         IN IF two # -1 THEN two
            ELSE IF j <= Len(s) /\ IsDigit(s[j])
            THEN StrptimeMatch(format, i + 1, s, j + 1)
            ELSE -1
    ELSE IF j <= Len(s) /\ lower(s[j]) = lower(format[i])
    THEN StrptimeMatch(format, i + 1, s, j + 1)
    ELSE -1

\* mutant: text after the match is accepted ('unconverted data remains' not raised)
strptime_ok_prefix(name, format) == StrptimeMatch(format, 1, name, 1) # -1

\* datetime.strptime(name, format) does not raise ValueError
strptime_ok(name, format) == StrptimeMatch(format, 1, name, 1) = Len(name) + 1

\* WcEnvManager.make_docker_container_name
make_docker_container_name == strftime(now, docker_container_name_format)

-----------------------------------------------------------------------------
(* Listing and selecting containers *)

RECURSIVE InsertByReadTimeAscending(_, _)
InsertByReadTimeAscending(sorted, c) ==
    IF sorted = <<>> THEN <<c>>
    ELSE IF Head(sorted).read <= c.read
    THEN <<Head(sorted)>> \o InsertByReadTimeAscending(Tail(sorted), c)
    ELSE <<c>> \o sorted

RECURSIVE InsertByReadTime(_, _)
\* c goes behind every container whose read time is not smaller
InsertByReadTime(sorted, c) ==
    IF sorted = <<>> THEN <<c>>
    ELSE IF Head(sorted).read >= c.read
    THEN <<Head(sorted)>> \o InsertByReadTime(Tail(sorted), c)
    ELSE <<c>> \o sorted

RECURSIVE SortAscending(_, _)
SortAscending(cs, acc) ==
    IF cs = <<>> THEN acc ELSE SortAscending(Tail(cs), InsertByReadTimeAscending(acc, Head(cs)))

RECURSIVE SortDescending(_, _)
\* containers.sort(reverse=True, key=read time): a stable sort
SortDescending(cs, acc) ==
    IF cs = <<>> THEN acc ELSE SortDescending(Tail(cs), InsertByReadTime(acc, Head(cs)))

\* mutant: sorted by read time in ascending order (reverse=True forgotten)
get_docker_containers_ascending(sort_by_read_time) ==
    LET containers == SelectSeq(daemon, LAMBDA c : strptime_ok(c.name, docker_container_name_format))
    IN IF sort_by_read_time THEN SortAscending(containers, <<>>) ELSE containers

\* mutant: the containers are not filtered by name
get_docker_containers_unfiltered(sort_by_read_time) ==
    IF sort_by_read_time THEN SortDescending(daemon, <<>>) ELSE daemon

\* WcEnvManager.get_docker_containers
get_docker_containers(sort_by_read_time) ==
    LET containers == SelectSeq(daemon, LAMBDA c : strptime_ok(c.name, docker_container_name_format))
    IN IF sort_by_read_time THEN SortDescending(containers, <<>>) ELSE containers

\* WcEnvManager.get_latest_docker_container
get_latest_docker_container ==
    LET containers == get_docker_containers(TRUE)
    IN IF containers # <<>> THEN containers[1].name ELSE None

-----------------------------------------------------------------------------
(* Inputs of SpecPath *)

\* sequences over S of length 0..n
SeqsUpTo(S, n) == UNION {[1..k -> S] : k \in 0..n}

HostComponents == {<<"a">>, <<"a", "a">>, <<".", ".">>, <<>>}

ContainerComponents == {<<"c">>, <<"c", "c">>}

\* host paths handed to convert_host_to_container_path: absolute, relative
\* and relative to the home directory
HostPathInputs ==
    {<<sep>> \o JoinSep(cs) : cs \in SeqsUpTo(HostComponents, MaxDepth)}
        \cup {JoinSep(cs) : cs \in SeqsUpTo({<<"a">>, <<"a", "a">>}, MaxDepth - 1) \ {<<>>}}
        \cup {<<"~">>, <<"~", sep, "a">>}

\* container paths handed to convert_container_to_host_path
ContainerPathInputs ==
    {<<sep>> \o JoinSep(cs) : cs \in SeqsUpTo(ContainerComponents, MaxDepth)}

\* mount points on the host: resolved absolute paths (keys of the mount table)
HostMountPaths == {<<sep, "a">>, <<sep, "a", sep, "a">>, <<sep, "a", "a">>}

\* bind paths in the container
BindPaths == {<<sep, "c">>, <<sep, "c", sep, "c">>, <<sep, "c", "c">>}

MountEntries == [host : HostMountPaths, bind : BindPaths]

\* a dict: keys unique; every iteration order; no two mounts on one bind path
MountTables ==
    {m \in SeqsUpTo(MountEntries, MaxMounts) :
        \A i, j \in 1..Len(m) : i # j => (m[i].host # m[j].host /\ m[i].bind # m[j].bind)}

Cwds == {<<sep>>, <<sep, "a">>}

-----------------------------------------------------------------------------
(* SpecPath *)

\* the session variables of a run that only converts paths
SessionUnused ==
    /\ daemon = <<>>
    /\ now = 0
    /\ host_config = [isdir |-> FALSE, has_paths_yml |-> FALSE, paths |-> <<>>]
    /\ debug = TRUE
    /\ images = <<>>
    /\ args = None
    /\ docker_image = None
    /\ docker_container_status = None
    /\ docker_container_name_format = <<"w", "%M">>
    /\ docker_container = None
    /\ python_packages_from_pypi = ""
    /\ python_packages_from_github = ""
    /\ python_packages_from_host = ""
    /\ paths_to_copy_to_docker_container = <<>>
    /\ pc = "idle"
    /\ last_call = [op |-> "none", upgrade |-> FALSE, arg |-> None]
    /\ status = "none"
    /\ failed_step = "none"
    /\ raised = NoErr
    /\ ret = "None"
    /\ ret_container = None
    /\ ret_value = None
    /\ log = <<>>
    /\ host_temps = {}
    /\ calls = 0

\* a run that checks no credential
CredentialsUnused ==
    /\ credentials = <<>>
    /\ host_files = <<>>

InitPath ==
    /\ paths_to_mount_to_docker_container \in MountTables
    /\ cwd \in Cwds
    /\ path_arg \in HostPathInputs \cup ContainerPathInputs
    /\ path_call = "none"
    /\ path_res = NoResult
    /\ rt_res = NoResult
    /\ SessionUnused
    /\ CredentialsUnused

CallHostToContainer ==
    /\ path_call = "none"
    /\ path_arg \in HostPathInputs
    /\ path_res' = convert_host_to_container_path(path_arg)
    /\ path_call' = "h2c"
    /\ UNCHANGED <<paths_to_mount_to_docker_container, cwd, path_arg, rt_res, sessionVars, credVars>>

CallContainerToHost ==
    /\ path_call = "none"
    /\ path_arg \in ContainerPathInputs
    /\ path_res' = convert_container_to_host_path(path_arg)
    /\ path_call' = "c2h"
    /\ UNCHANGED <<paths_to_mount_to_docker_container, cwd, path_arg, rt_res, sessionVars, credVars>>

\* convert_container_to_host_path(convert_host_to_container_path(h))
RoundTrip ==
    /\ path_call = "h2c"
    /\ path_res.raised = NoError
    /\ rt_res' = convert_container_to_host_path(path_res.ret)
    /\ path_call' = "rt"
    /\ UNCHANGED <<paths_to_mount_to_docker_container, cwd, path_arg, path_res, sessionVars, credVars>>

NextPath ==
    \/ CallHostToContainer
    \/ CallContainerToHost
    \/ RoundTrip

SpecPath == InitPath /\ [][NextPath]_vars

-----------------------------------------------------------------------------
(* Images of the daemon and the session's current image *)

\* self.base_docker_image_repo and self.base_docker_image_tags
BaseRepo == "karrlab/wc_env_dependencies"

BaseTags == <<"latest", "0.0.1">>

\* '{}:{}'.format(image_repo, tag); a name without a tag names the tag 'latest'
Ref(image_repo, tag) == <<image_repo, tag>>

\* place in the daemon's images of the one that carries the reference, 0 if none does
ImageIdx(ims, ref) ==
    IF \E i \in 1..Len(ims) : ref \in ims[i].tags
    THEN CHOOSE i \in 1..Len(ims) : ref \in ims[i].tags
    ELSE 0

\* mutant: the handle returned does not carry the image's tags
images_get_untagged(ims, ref) ==
    IF ImageIdx(ims, ref) # 0 THEN <<ims[ImageIdx(ims, ref)].id, {}>> ELSE None

\* self._docker_client.images.get('repo:tag'): a handle <<id, tags>> holding
\* the image's id and the tags it has when it is fetched; None stands for
\* ImageNotFound
images_get(ims, ref) ==
    IF ImageIdx(ims, ref) # 0
    THEN <<ims[ImageIdx(ims, ref)].id, ims[ImageIdx(ims, ref)].tags>>
    ELSE None

\* WcEnvManager.get_latest_docker_image: images.get(image_repo), None if ImageNotFound
get_latest_docker_image(image_repo) == images_get(images, Ref(image_repo, "latest"))

\* the image of the base repository, as the daemon holds it
BaseImage == [id |-> 1, tags |-> {Ref(BaseRepo, "latest")}]

\* container.status of a handle that containers.list() or containers.get() returns
StatusOf(c) == IF c.running THEN "running" ELSE "exited"

-----------------------------------------------------------------------------
(* The session: state shared by SpecContainers and Spec *)

NoCall == [op |-> "none", upgrade |-> FALSE, arg |-> None]

\* the path variables of a session that converts no path
PathUnused ==
    /\ cwd = <<sep>>
    /\ path_arg = <<sep>>
    /\ path_call = "none"
    /\ path_res = NoResult
    /\ rt_res = NoResult

\* no call made yet
CallIdle ==
    /\ pc = "idle"
    /\ last_call = NoCall
    /\ status = "none"
    /\ failed_step = "none"
    /\ raised = NoErr
    /\ ret = "None"
    /\ ret_container = None
    /\ ret_value = None
    /\ log = <<>>
    /\ host_temps = {}
    /\ calls = 0

NameFormat == <<"w", MinuteDirective>>

NoKnownHosts == [rsa |-> 0, other |-> 0]

NewContainer(name, read) ==
    [name |-> name, read |-> read, running |-> TRUE, created_here |-> TRUE,
     files |-> {}, known_hosts |-> NoKnownHosts]

\* position of the current container in the daemon's list, 0 if it is not there
CurrentIdx ==
    IF \E i \in 1..Len(daemon) : daemon[i].name = docker_container
    THEN CHOOSE i \in 1..Len(daemon) : daemon[i].name = docker_container
    ELSE 0

\* what a handler sees when it starts; log and host_temps as given
WorldWith(l, temps) ==
    [container |-> docker_container,
     present |-> CurrentIdx # 0,
     running |-> (CurrentIdx # 0 /\ daemon[CurrentIdx].running),
     files |-> IF CurrentIdx # 0 THEN daemon[CurrentIdx].files ELSE {},
     known_hosts |-> IF CurrentIdx # 0 THEN daemon[CurrentIdx].known_hosts ELSE NoKnownHosts,
     host_temps |-> temps,
     log |-> l,
     raised |-> NoErr,
     out |-> <<>>,
     code |-> 0,
     ret |-> "None",
     container_temp_filename |-> <<>>,
     container_user_dirname |-> <<>>]

\* a handler's effects become the next state
Commit(w) ==
    /\ daemon' = IF CurrentIdx = 0 THEN daemon
                 ELSE [daemon EXCEPT ![CurrentIdx].files = w.files,
                                     ![CurrentIdx].known_hosts = w.known_hosts]
    /\ log' = w.log
    /\ raised' = w.raised
    /\ ret' = w.ret
    /\ host_temps' = w.host_temps

\* a method called on the idle session returns or raises
EndCall(op, w) ==
    /\ Commit(w)
    /\ pc' = "idle"
    /\ last_call' = [op |-> op, upgrade |-> FALSE, arg |-> None]
    /\ status' = IF w.raised = NoErr THEN "returned" ELSE "raised"
    /\ failed_step' = "none"
    /\ ret_container' = None
    /\ ret_value' = None
    /\ calls' = calls + 1

-----------------------------------------------------------------------------
(* Creating and selecting containers *)

ReadTimes == {1, 2}

\* the object exists: __init__ has run
Constructed == docker_container_name_format # None

\* mutant: the new container is returned but not made the current one
CurrentAfterCreateKept(name) == docker_container

\* container = self._docker_container = self._docker_client.containers.run(...)
CurrentAfterCreate(name) == name

\* WcEnvManager.create_docker_container: containers.run(base_docker_image_repo,
\* name=name, volumes=..., stdin_open=True, tty=tty, detach=True, user='root').
\* The daemon refuses a name that is in use; containers.run pulls the image
\* when the daemon does not have it.
CreateDockerContainer ==
    /\ Constructed
    /\ pc = "idle"
    /\ calls < MaxCalls
    /\ Len(daemon) < MaxContainers
    /\ LET name == make_docker_container_name
           run == [Ev("run", "call") EXCEPT
                      !.cmd = <<BaseRepo, name, paths_to_mount_to_docker_container>>,
                      !.user = root]
       IN
       /\ IF \E i \in 1..Len(daemon) : daemon[i].name = name
          THEN /\ raised' = Exc("docker.errors.APIError", "Conflict. The container name is already in use", <<name>>)
               /\ status' = "raised"
               /\ ret_container' = None
               /\ UNCHANGED <<daemon, docker_container, docker_container_status, images>>
          ELSE /\ \E read \in ReadTimes : daemon' = <<NewContainer(name, read)>> \o daemon
               /\ images' = IF get_latest_docker_image(BaseRepo) = None
                            THEN Append(images, BaseImage) ELSE images
               /\ docker_container' = CurrentAfterCreate(name)
               /\ docker_container_status' = "created"
               /\ raised' = NoErr
               /\ status' = "returned"
               /\ ret_container' = name
       /\ log' = <<run>>
    /\ pc' = "idle"
    /\ last_call' = [op |-> "create_docker_container", upgrade |-> FALSE, arg |-> None]
    /\ failed_step' = "none"
    /\ ret' = "None"
    /\ host_temps' = {}
    /\ ret_value' = None
    /\ calls' = calls + 1
    /\ UNCHANGED <<pathVars, credVars, now, host_config, debug, configVars, docker_image>>

\* wc_env_manager.config.core.get_config()['wc_env_manager'], the fields the model reads
DefaultConfig ==
    [docker_container_name_format |-> NameFormat,
     paths_to_mount_to_docker_container |-> <<[host |-> <<sep, "a">>, bind |-> <<sep, "c">>]>>,
     paths_to_copy_to_docker_container |-> <<>>,
     python_packages_from_pypi |-> "pip",
     python_packages_from_github |-> "git+https://github.com/KarrLab/wc_utils.git#egg=wc_utils",
     python_packages_from_host |-> "-e /root/host/wc_lang"]

\* mutant: the attribute is set to the default whatever the argument
ConfiguredDefaultOnly(arg, default_val) == default_val

\* val = eval(key); if val is None: val = default_val
Configured(arg, default_val) == IF arg = None THEN default_val ELSE arg[1]

\* WcEnvManager.__init__: every attribute from its argument or its default,
\* then the current image and the current container
Construct ==
    /\ ~Constructed
    /\ pc = "idle"
    /\ docker_container_name_format' =
          Configured(args.docker_container_name_format, DefaultConfig.docker_container_name_format)
    /\ paths_to_mount_to_docker_container' =
          Configured(args.paths_to_mount_to_docker_container, DefaultConfig.paths_to_mount_to_docker_container)
    /\ paths_to_copy_to_docker_container' =
          Configured(args.paths_to_copy_to_docker_container, DefaultConfig.paths_to_copy_to_docker_container)
    /\ python_packages_from_pypi' =
          Configured(args.python_packages_from_pypi, DefaultConfig.python_packages_from_pypi)
    /\ python_packages_from_github' =
          Configured(args.python_packages_from_github, DefaultConfig.python_packages_from_github)
    /\ python_packages_from_host' =
          Configured(args.python_packages_from_host, DefaultConfig.python_packages_from_host)
    /\ UNCHANGED <<envVars, images, args>>
    /\ docker_image' = get_latest_docker_image(BaseRepo)
    /\ docker_container' = get_latest_docker_container'
    /\ docker_container_status' =
          IF docker_container' = None THEN None
          ELSE StatusOf(daemon[CHOOSE i \in 1..Len(daemon) : daemon[i].name = docker_container'])
    /\ last_call' = [op |-> "__init__", upgrade |-> FALSE, arg |-> None]
    /\ status' = "returned"
    /\ UNCHANGED <<cwd, path_arg, path_call, path_res, rt_res, pc, failed_step, raised, ret,
                   ret_container, ret_value, log, host_temps, calls, credVars>>

\* WcEnvManager.get_latest_docker_container, called by the user
GetLatestDockerContainer ==
    /\ Constructed
    /\ pc = "idle"
    /\ ret_container' = get_latest_docker_container
    /\ last_call' = [op |-> "get_latest_docker_container", upgrade |-> FALSE, arg |-> None]
    /\ status' = "returned"
    /\ raised' = NoErr
    /\ ret' = "None"
    /\ log' = <<>>
    /\ host_temps' = {}
    /\ failed_step' = "none"
    /\ ret_value' = None
    /\ UNCHANGED <<pathVars, credVars, envVars, configVars, docker_container, pc, calls, clientVars>>

\* the names of the containers of a list
Names(cs) == [i \in 1..Len(cs) |-> cs[i].name]

\* WcEnvManager.get_docker_containers(sort_by_read_time), called by the user
GetDockerContainers ==
    /\ Constructed
    /\ pc = "idle"
    /\ \E sort_by_read_time \in BOOLEAN :
          ret_value' = Names(get_docker_containers(sort_by_read_time))
    /\ last_call' = [op |-> "get_docker_containers", upgrade |-> FALSE, arg |-> None]
    /\ status' = "returned"
    /\ raised' = NoErr
    /\ ret' = "None"
    /\ ret_container' = None
    /\ log' = <<>>
    /\ host_temps' = {}
    /\ failed_step' = "none"
    /\ UNCHANGED <<pathVars, credVars, envVars, configVars, docker_container, pc, calls, clientVars>>

\* WcEnvManager.remove_docker_containers(force=False):
\* for container in self.get_docker_containers(): container.remove(force=force)
\* and then self._docker_container = None. The daemon refuses to remove a
\* running container unless forced; the loop ends at the first refusal.
RemoveDockerContainers ==
    /\ Constructed
    /\ pc = "idle"
    /\ calls < MaxCalls
    /\ \E force \in {None, <<FALSE>>, <<TRUE>>} :
          LET containers == get_docker_containers(TRUE)
              refused == {k \in 1..Len(containers) : containers[k].running /\ force # <<TRUE>>}
              last == IF refused = {} THEN Len(containers)
                      ELSE CHOOSE k \in refused : \A j \in refused : k <= j
              removed == {containers[k].name : k \in (1..last) \ refused}
          IN
          /\ daemon' = SelectSeq(daemon, LAMBDA c : c.name \notin removed)
          /\ log' = [k \in 1..last |->
                        [Ev("remove", "call") EXCEPT
                            !.cmd = <<containers[k].name>>,
                            !.code = IF k \in refused THEN 1 ELSE 0]]
          /\ IF refused = {}
             THEN /\ docker_container' = None
                  /\ docker_container_status' = None
                  /\ raised' = NoErr
                  /\ status' = "returned"
             ELSE /\ UNCHANGED <<docker_container, docker_container_status>>
                  /\ raised' = Exc("docker.errors.APIError", "You cannot remove a running container",
                                   <<containers[last].name>>)
                  /\ status' = "raised"
          /\ last_call' = [op |-> "remove_docker_containers", upgrade |-> FALSE, arg |-> force]
    /\ ret' = "None"
    /\ ret_container' = None
    /\ ret_value' = None
    /\ host_temps' = {}
    /\ failed_step' = "none"
    /\ calls' = calls + 1
    /\ UNCHANGED <<pathVars, credVars, now, host_config, debug, configVars, pc, images, docker_image>>

\* the clock of the host advances
Tick ==
    /\ now < MaxClock
    /\ now' = now + 1
    /\ UNCHANGED <<pathVars, credVars, daemon, host_config, debug, configVars, docker_container, callVars, calls, clientVars>>

\* names of containers found on the daemon: some parse against 'w%M'
\* ('w07', 'w5', 'W07'), some do not ('x07', 'w077', 'w77')
ForeignNames ==
    {<<"w", "0", "7">>, <<"w", "5">>, <<"W", "0", "7">>, <<"x", "0", "7">>, <<"w", "0", "7", "7">>,
     <<"w", "7", "7">>}

\* containers found on the daemon, running or not
FoundContainers ==
    [name : ForeignNames, read : ReadTimes, running : BOOLEAN, created_here : {FALSE},
     files : {{}}, known_hosts : {NoKnownHosts}]

Daemons ==
    {d \in SeqsUpTo(FoundContainers, MaxContainers) :
        \A i, j \in 1..Len(d) : i # j => d[i].name # d[j].name}

\* arguments of the constructor: all omitted; some given, among them an empty
\* mount table and an empty package list; all given
ConstructorArgs ==
    {[docker_container_name_format |-> None,
      paths_to_mount_to_docker_container |-> None,
      paths_to_copy_to_docker_container |-> None,
      python_packages_from_pypi |-> None,
      python_packages_from_github |-> None,
      python_packages_from_host |-> None],
     [docker_container_name_format |-> <<<<"x", MinuteDirective>>>>,
      paths_to_mount_to_docker_container |-> <<<<>>>>,
      paths_to_copy_to_docker_container |-> None,
      python_packages_from_pypi |-> <<"">>,
      python_packages_from_github |-> None,
      python_packages_from_host |-> <<"">>],
     [docker_container_name_format |-> <<NameFormat>>,
      paths_to_mount_to_docker_container |-> <<<<[host |-> <<sep, "a", "a">>, bind |-> <<sep, "c">>]>>>>,
      paths_to_copy_to_docker_container |-> <<<<[host |-> <<"/host/data">>, container |-> <<sep, "d">>]>>>>,
      python_packages_from_pypi |-> <<"requests==2.0">>,
      python_packages_from_github |-> <<"">>,
      python_packages_from_host |-> <<"-e /root/host/wc_env">>]}

\* before WcEnvManager(...) is called: no attribute is set
InitContainers ==
    /\ PathUnused
    /\ CredentialsUnused
    /\ paths_to_mount_to_docker_container = None
    /\ daemon \in Daemons
    /\ images \in {<<>>, <<BaseImage>>}
    /\ now = 0
    /\ host_config = [isdir |-> FALSE, has_paths_yml |-> FALSE, paths |-> <<>>]
    /\ debug = TRUE
    /\ args \in ConstructorArgs
    /\ docker_image = None
    /\ docker_container_name_format = None
    /\ docker_container = None
    /\ docker_container_status = None
    /\ python_packages_from_pypi = None
    /\ python_packages_from_github = None
    /\ python_packages_from_host = None
    /\ paths_to_copy_to_docker_container = None
    /\ CallIdle

NextContainers ==
    \/ Construct
    \/ GetLatestDockerContainer
    \/ GetDockerContainers
    \/ CreateDockerContainer
    \/ Tick

SpecContainers == InitContainers /\ [][NextContainers]_vars

-----------------------------------------------------------------------------
(* Spec: provisioning of the current container *)

\* the steps of setup_docker_container, in the order of its statements
SetupSteps == <<"copy_config", "copy_paths", "ssh_host", "ssh_test", "pypi", "github", "host">>

\* mutant: the GitHub packages are installed before the PyPI packages
SetupOrderGithubFirst == <<"copy_config", "copy_paths", "ssh_host", "ssh_test", "github", "pypi", "host">>

\* the statements of setup_docker_container, one step each
SetupOrder == SetupSteps

StepIndex(order, step) == CHOOSE k \in 1..Len(order) : order[k] = step

\* the step whose statement follows step's; "idle" after the last one
StepAfter(step) ==
    LET k == StepIndex(SetupOrder, step)
    IN IF k = Len(SetupOrder) THEN "idle" ELSE SetupOrder[k + 1]

\* a step of setup_docker_container ends: go on, or unwind with the exception
EndStep(step, w) ==
    /\ Commit(w)
    /\ pc' = IF w.raised = NoErr THEN StepAfter(step) ELSE "idle"
    /\ status' = IF w.raised # NoErr THEN "raised"
                 ELSE IF StepAfter(step) = "idle" THEN "returned"
                 ELSE "running"
    /\ failed_step' = IF w.raised # NoErr THEN step ELSE failed_step
    /\ UNCHANGED <<pathVars, credVars, now, host_config, debug, configVars, docker_container,
                   last_call, ret_container, ret_value, calls, clientVars>>

\* the world of the running call
World == WorldWith(log, host_temps)

\* setup_docker_container(upgrade) is called
SetupDockerContainer ==
    /\ pc = "idle"
    /\ calls < MaxCalls
    /\ CurrentIdx # 0 =>
          /\ daemon[CurrentIdx].known_hosts.rsa < MaxKnownHosts
          /\ daemon[CurrentIdx].known_hosts.other < MaxKnownHosts
    /\ \E up \in BOOLEAN : last_call' = [op |-> "setup_docker_container", upgrade |-> up, arg |-> None]
    /\ pc' = SetupOrder[1]
    /\ status' = "running"
    /\ failed_step' = "none"
    /\ raised' = NoErr
    /\ ret' = "None"
    /\ ret_container' = None
    /\ log' = <<>>
    /\ host_temps' = {}
    /\ ret_value' = None
    /\ calls' = calls + 1
    /\ UNCHANGED <<pathVars, credVars, envVars, configVars, docker_container, clientVars>>

ConfigEnvs(host) ==
    [realpath : {0, 1}, copy : CopyEnvs,
     items : [1..Len(host.paths) -> [mkdir : {0, 1}, copy : CopyEnvs]]]

\* self.copy_config_files_to_docker_container(overwrite=upgrade)
SetupCopyConfigFiles ==
    /\ pc = "copy_config"
    /\ \E e \in ConfigEnvs(host_config) :
          EndStep("copy_config",
                  copy_config_files_to_docker_container(World, "copy_config", host_config,
                                                        last_call.upgrade, e))

\* for path in self.paths_to_copy_to_docker_container.values(): ...
SetupCopyPaths ==
    /\ pc = "copy_paths"
    /\ \E es \in [1..Len(paths_to_copy_to_docker_container) -> CopyEnvs] :
          EndStep("copy_paths",
                  CopyPathsLoop(World, "copy_paths", paths_to_copy_to_docker_container, 1,
                                last_call.upgrade, es))

\* self.install_github_ssh_host_in_docker_container(upgrade=upgrade)
SetupInstallGithubSshHost ==
    /\ pc = "ssh_host"
    /\ \E e \in KnownHostsEnvs :
          EndStep("ssh_host",
                  install_github_ssh_host_in_docker_container(World, "ssh_host", last_call.upgrade, e))

\* what ssh prints: with and without the message, with and without a final newline
SshOutputs ==
    {<<>>,
     <<"d", "e", "n", "i", "e", "d", nl>>,
     AuthenticatedPattern,
     AuthenticatedPattern \o <<nl>>,
     <<"H", "i", " ">> \o AuthenticatedPattern \o <<",", nl>>,
     <<"H", "i", " ">> \o DropLast(AuthenticatedPattern) \o <<",", nl>>}

SshResults == [output : SshOutputs, exit_code : {0, 1, 255}]

\* the answers of the probe tried inside setup_docker_container
SetupSshResults ==
    {[output |-> AuthenticatedPattern \o <<",", nl>>, exit_code |-> 1],
     [output |-> AuthenticatedPattern \o <<",", nl>>, exit_code |-> 0],
     [output |-> <<"d", "e", "n", "i", "e", "d", nl>>, exit_code |-> 255]}

\* assert(value): AssertionError unless the value is true
Assert_(w) ==
    IF w.raised = NoErr /\ w.ret = "False"
    THEN [w EXCEPT !.raised = Exc("AssertionError", "", <<>>)]
    ELSE w

\* assert(self.test_github_ssh_access_in_docker_container()): with -O the
\* statement is compiled away, call included
SetupTestGithubSshAccess ==
    /\ pc = "ssh_test"
    /\ IF ~debug THEN EndStep("ssh_test", World)
       ELSE \E res \in SetupSshResults :
               EndStep("ssh_test",
                       Assert_(test_github_ssh_access_in_docker_container(World, "ssh_test", res)))

\* what the runtime may answer to an install in the current container
FreshInstallEnvs == InstallEnvs(World.files)

\* self.install_python_packages_in_docker_container(self.python_packages_from_pypi, upgrade=upgrade)
SetupInstallPypi ==
    /\ pc = "pypi"
    /\ \E e \in FreshInstallEnvs :
          EndStep("pypi",
                  install_python_packages_in_docker_container(
                      World, "pypi", python_packages_from_pypi, last_call.upgrade, FALSE, e))

\* ...(self.python_packages_from_github, upgrade=upgrade, process_dependency_links=True)
SetupInstallGithub ==
    /\ pc = "github"
    /\ \E e \in FreshInstallEnvs :
          EndStep("github",
                  install_python_packages_in_docker_container(
                      World, "github", python_packages_from_github, last_call.upgrade, TRUE, e))

\* ...(self.python_packages_from_host, upgrade=upgrade, process_dependency_links=True)
SetupInstallHost ==
    /\ pc = "host"
    /\ \E e \in FreshInstallEnvs :
          EndStep("host",
                  install_python_packages_in_docker_container(
                      World, "host", python_packages_from_host, last_call.upgrade, TRUE, e))

\* destinations of copies the user asks for
CopyDestinations == {<<sep, "d">>}

\* copy_path_to_docker_container(local_path, container_path, overwrite), called by the user
CopyPathToDockerContainer ==
    /\ pc = "idle"
    /\ calls < MaxCalls
    /\ \E container_path \in CopyDestinations, overwrite \in BOOLEAN, e \in CopyEnvs :
          EndCall("copy_path_to_docker_container",
                  copy_path_to_docker_container(WorldWith(<<>>, {}), "call", <<"/host/file">>,
                                                container_path, overwrite, root, e))
    /\ UNCHANGED <<pathVars, credVars, now, host_config, debug, configVars, docker_container, clientVars>>

\* test_github_ssh_access_in_docker_container(), called by the user
TestGithubSshAccess ==
    /\ pc = "idle"
    /\ calls < MaxCalls
    /\ \E res \in SshResults :
          EndCall("test_github_ssh_access_in_docker_container",
                  test_github_ssh_access_in_docker_container(WorldWith(<<>>, {}), "call", res))
    /\ UNCHANGED <<pathVars, credVars, now, host_config, debug, configVars, docker_container, clientVars>>

\* the arguments of WcEnvManager(...): a session that mounts nothing and installs
\* from PyPI only, and one that mounts a directory, copies a path and installs
\* from PyPI, GitHub and the host
Configurations ==
    {[paths_to_mount_to_docker_container |-> <<>>,
      python_packages_from_pypi |-> "requests==2.0",
      python_packages_from_github |-> "",
      python_packages_from_host |-> "",
      paths_to_copy_to_docker_container |-> <<>>],
     [paths_to_mount_to_docker_container |-> <<[host |-> <<sep, "a">>, bind |-> <<sep, "c">>]>>,
      python_packages_from_pypi |-> "requests==2.0",
      python_packages_from_github |-> "git+https://github.com/KarrLab/wc_utils.git#egg=wc_utils",
      python_packages_from_host |-> "-e /root/host/wc_lang",
      paths_to_copy_to_docker_container |-> <<[host |-> <<"/host/data">>, container |-> <<sep, "d">>]>>]}

HostConfigs ==
    {[isdir |-> FALSE, has_paths_yml |-> FALSE, paths |-> <<>>],
     [isdir |-> TRUE, has_paths_yml |-> FALSE, paths |-> <<>>],
     [isdir |-> TRUE, has_paths_yml |-> TRUE,
      paths |-> <<[src |-> "paths-file", dest |-> <<"~", sep, "k", sep, "f">>]>>]}

\* the daemon when the session is constructed: no container, or one left by
\* an earlier session, running or stopped
FoundDaemons ==
    {<<>>,
     <<[NewContainer(<<"w", "0", "7">>, 1) EXCEPT !.created_here = FALSE]>>,
     <<[NewContainer(<<"w", "0", "7">>, 1) EXCEPT !.created_here = FALSE, !.running = FALSE]>>}

\* the state after WcEnvManager.__init__
Init ==
    /\ PathUnused
    /\ CredentialsUnused
    /\ daemon \in FoundDaemons
    /\ now = 0
    /\ host_config \in HostConfigs
    /\ debug \in BOOLEAN
    /\ images = <<BaseImage>>
    /\ docker_image = get_latest_docker_image(BaseRepo)
    /\ docker_container_name_format = NameFormat
    /\ docker_container = get_latest_docker_container
    /\ docker_container_status = IF daemon = <<>> THEN None ELSE StatusOf(daemon[1])
    /\ \E c \in Configurations :
          /\ args = [k \in DOMAIN DefaultConfig |-> IF k \in DOMAIN c THEN <<c[k]>> ELSE None]
          /\ paths_to_mount_to_docker_container = c.paths_to_mount_to_docker_container
          /\ python_packages_from_pypi = c.python_packages_from_pypi
          /\ python_packages_from_github = c.python_packages_from_github
          /\ python_packages_from_host = c.python_packages_from_host
          /\ paths_to_copy_to_docker_container = c.paths_to_copy_to_docker_container
    /\ CallIdle

Next ==
    \/ CreateDockerContainer
    \/ Tick
    \/ SetupDockerContainer
    \/ SetupCopyConfigFiles
    \/ SetupCopyPaths
    \/ SetupInstallGithubSshHost
    \/ SetupTestGithubSshAccess
    \/ SetupInstallPypi
    \/ SetupInstallGithub
    \/ SetupInstallHost
    \/ CopyPathToDockerContainer
    \/ TestGithubSshAccess

Spec == Init /\ [][Next]_vars

-----------------------------------------------------------------------------
(* Images, and the life of the current container: SpecRuntime *)

\* a method called on the idle session returns value or raises err, after the
\* capability calls l
Called(op, arg, l, err, value) ==
    /\ pc' = "idle"
    /\ last_call' = [op |-> op, upgrade |-> FALSE, arg |-> arg]
    /\ status' = IF err = NoErr THEN "returned" ELSE "raised"
    /\ failed_step' = "none"
    /\ raised' = err
    /\ ret' = "None"
    /\ ret_container' = None
    /\ ret_value' = IF err = NoErr THEN value ELSE None
    /\ log' = l
    /\ host_temps' = {}
    /\ calls' = calls + 1

\* WcEnvManager.set_docker_image(image): a name is looked up with images.get,
\* which raises ImageNotFound; an image object is stored as it is
SetDockerImage ==
    /\ Constructed
    /\ pc = "idle"
    /\ calls < MaxCalls
    /\ \/ \E tag \in {BaseTags[1], BaseTags[2]} :
             IF ImageIdx(images, Ref(BaseRepo, tag)) # 0
             THEN /\ docker_image' = images_get(images, Ref(BaseRepo, tag))
                  /\ Called("set_docker_image", None, <<>>, NoErr, None)
             ELSE /\ docker_image' = docker_image
                  /\ Called("set_docker_image", None, <<>>,
                            Exc("docker.errors.ImageNotFound", "No such image", Ref(BaseRepo, tag)), None)
       \/ \E i \in 1..Len(images) :
             /\ docker_image' = <<images[i].id, images[i].tags>>
             /\ Called("set_docker_image", None, <<>>, NoErr, None)
    /\ UNCHANGED <<pathVars, credVars, envVars, configVars, docker_container, images, docker_container_status>>

\* image.tag(repo, tag=tag), and the tagging a pull does: the reference names
\* the image id from now on, and no other image
Tag(ims, id, ref) ==
    IF \E i \in 1..Len(ims) : ims[i].id = id
    THEN [i \in 1..Len(ims) |->
            [ims[i] EXCEPT !.tags = IF ims[i].id = id THEN @ \cup {ref} ELSE @ \ {ref}]]
    ELSE Append([i \in 1..Len(ims) |-> [ims[i] EXCEPT !.tags = @ \ {ref}]],
                [id |-> id, tags |-> {ref}])

\* WcEnvManager.pull_docker_image(image_repo, image_tags):
\* self._docker_image = images.pull(image_repo, tag=image_tags[0]).
\* The registry holds image 1 as 'latest' and image 2 as '0.0.1'; the pull
\* fails when the registry cannot be reached.
PullDockerImage ==
    /\ Constructed
    /\ pc = "idle"
    /\ calls < MaxCalls
    /\ \E image_tags \in {<<BaseTags[1]>>, <<BaseTags[2]>>, BaseTags}, reached \in BOOLEAN :
          IF reached
          THEN /\ images' = Tag(images, IF image_tags[1] = "latest" THEN 1 ELSE 2,
                                Ref(BaseRepo, image_tags[1]))
               /\ docker_image' = images_get(images', Ref(BaseRepo, image_tags[1]))
               /\ Called("pull_docker_image", None, <<>>, NoErr, docker_image')
          ELSE /\ UNCHANGED <<images, docker_image>>
               /\ Called("pull_docker_image", None, <<>>,
                         Exc("docker.errors.APIError", "pull failed", Ref(BaseRepo, image_tags[1])), None)
    /\ UNCHANGED <<pathVars, credVars, envVars, configVars, docker_container, docker_container_status>>

\* the except clauses of build_base_docker_image: every exception of
\* images.build is raised again as WcEnvManagerError, with a message for its class
BuildFailure(exception) ==
    Exc("WcEnvManagerError",
        CASE exception = "requests.exceptions.ConnectionError" ->
                "Docker connection error: service must be running"
          [] exception = "docker.errors.APIError" ->
                "Docker API error: Dockerfile contains syntax errors"
          [] exception = "docker.errors.BuildError" ->
                "Docker build error: Error building Dockerfile"
          [] OTHER -> exception,
        <<>>)

\* WcEnvManager.build_base_docker_image(): the context must be a directory;
\* images.build returns a new image (id 3, 4, ...) or raises; the image gets
\* the tags of the base image, is fetched again by its first tag and becomes
\* the current image
BuildBaseDockerImage ==
    /\ Constructed
    /\ pc = "idle"
    /\ calls < MaxCalls
    /\ \E isdir \in BOOLEAN,
          outcome \in {"built", "requests.exceptions.ConnectionError", "docker.errors.APIError",
                       "docker.errors.BuildError", "OSError"} :
          IF ~isdir
          THEN /\ UNCHANGED <<images, docker_image>>
               /\ Called("build_base_docker_image", None, <<>>,
                         Exc("WcEnvManagerError", "Docker image context must be a directory", <<>>), None)
          ELSE IF outcome # "built"
          THEN /\ UNCHANGED <<images, docker_image>>
               /\ Called("build_base_docker_image", None,
                         <<[Ev("build", "call") EXCEPT !.err = Exc(outcome, "", <<>>)]>>,
                         BuildFailure(outcome), None)
          ELSE /\ images' = Tag(Tag(images, 3 + calls, Ref(BaseRepo, BaseTags[1])),
                                3 + calls, Ref(BaseRepo, BaseTags[2]))
               /\ docker_image' = images_get(images', Ref(BaseRepo, BaseTags[1]))
               /\ Called("build_base_docker_image", None, <<Ev("build", "call")>>, NoErr, docker_image')
    /\ UNCHANGED <<pathVars, credVars, envVars, configVars, docker_container, docker_container_status>>

\* the loop of remove_docker_image: images.remove('repo:tag', force=True) for
\* each tag; st is [images, log, raised]. The daemon drops the reference, and
\* the image with its last reference; a reference it does not know is ImageNotFound.
RECURSIVE RemoveImages(_, _, _)
RemoveImages(st, image_repo, image_tags) ==
    IF image_tags = <<>> \/ st.raised # NoErr THEN st
    ELSE RemoveImages(
            IF ImageIdx(st.images, Ref(image_repo, Head(image_tags))) = 0
            THEN [st EXCEPT
                    !.log = Append(@, [Ev("images.remove", "call") EXCEPT
                                          !.cmd = <<Ref(image_repo, Head(image_tags)), TRUE>>, !.code = 1]),
                    !.raised = Exc("docker.errors.ImageNotFound", "No such image",
                                   Ref(image_repo, Head(image_tags)))]
            ELSE [st EXCEPT
                    !.log = Append(@, [Ev("images.remove", "call") EXCEPT
                                          !.cmd = <<Ref(image_repo, Head(image_tags)), TRUE>>]),
                    !.images = SelectSeq([i \in 1..Len(st.images) |->
                                             [st.images[i] EXCEPT
                                                 !.tags = @ \ {Ref(image_repo, Head(image_tags))}]],
                                         LAMBDA im : im.tags # {})],
            image_repo, Tail(image_tags))

\* WcEnvManager.remove_docker_image(image_repo, image_tags, force=False)
RemoveDockerImage ==
    /\ Constructed
    /\ pc = "idle"
    /\ calls < MaxCalls
    /\ \E image_tags \in {<<BaseTags[1]>>, <<BaseTags[2]>>, BaseTags},
          force \in {None, <<FALSE>>, <<TRUE>>} :
          \E st \in {RemoveImages([images |-> images, log |-> <<>>, raised |-> NoErr],
                                  BaseRepo, image_tags)} :
             /\ images' = st.images
             /\ Called("remove_docker_image", force, st.log, st.raised, None)
    /\ UNCHANGED <<pathVars, credVars, envVars, configVars, docker_container, docker_image, docker_container_status>>

\* WcEnvManager.stop_docker_container(): self._docker_container.stop()
StopDockerContainer ==
    /\ Constructed
    /\ pc = "idle"
    /\ calls < MaxCalls
    /\ \E w \in {ContainerCall(WorldWith(<<>>, {}), "stop")} :
          /\ daemon' = IF w.raised = NoErr
                       THEN [daemon EXCEPT ![CurrentIdx].running = FALSE] ELSE daemon
          /\ Called("stop_docker_container", None,
                    IF w.container = None THEN <<>>
                    ELSE <<[Ev("stop", "call") EXCEPT !.err = w.raised]>>,
                    w.raised, None)
    /\ UNCHANGED <<pathVars, credVars, now, host_config, debug, configVars, docker_container, clientVars>>

\* mutant: the removed container stays the current one
CurrentAfterRemoveKept == docker_container

\* self._docker_container = None
CurrentAfterRemove == None

\* WcEnvManager.remove_docker_container(force=False):
\* self._docker_container.remove(force=force); self._docker_container = None.
\* The daemon refuses to remove a running container unless forced.
RemoveDockerContainer ==
    /\ Constructed
    /\ pc = "idle"
    /\ calls < MaxCalls
    /\ \E force \in {None, <<FALSE>>, <<TRUE>>}, w0 \in {ContainerCall(WorldWith(<<>>, {}), "remove")} :
          \E w \in {IF w0.raised = NoErr /\ w0.running /\ force # <<TRUE>>
                    THEN [w0 EXCEPT !.raised = Exc("docker.errors.APIError",
                                                   "You cannot remove a running container", <<w0.container>>)]
                    ELSE w0} :
             /\ IF w.raised = NoErr
                THEN /\ daemon' = SelectSeq(daemon, LAMBDA c : c.name # docker_container)
                     /\ docker_container' = CurrentAfterRemove
                     /\ docker_container_status' = None
                ELSE UNCHANGED <<daemon, docker_container, docker_container_status>>
             /\ Called("remove_docker_container", force,
                       IF w.container = None THEN <<>>
                       ELSE <<[Ev("remove", "call") EXCEPT !.err = w.raised]>>,
                       w.raised, None)
    /\ UNCHANGED <<pathVars, credVars, now, host_config, debug, configVars, images, docker_image>>

\* WcEnvManager.get_docker_container_stats(): self._docker_container.stats(stream=False)
GetDockerContainerStats ==
    /\ Constructed
    /\ pc = "idle"
    /\ calls < MaxCalls
    /\ \E w \in {ContainerCall(WorldWith(<<>>, {}), "stats")} :
          Called("get_docker_container_stats", None,
                 IF w.container = None THEN <<>>
                 ELSE <<[Ev("stats", "call") EXCEPT !.err = w.raised]>>,
                 w.raised, <<"stats">>)
    /\ UNCHANGED <<pathVars, credVars, envVars, configVars, docker_container, clientVars>>

\* run_process_in_docker_container(cmd, check=True, container_user=WcEnvUser.root),
\* called by the user with check omitted, True or False; returns
\* (output[0:-1], exit_code)
RunProcessInDockerContainer ==
    /\ Constructed
    /\ pc = "idle"
    /\ calls < MaxCalls
    /\ \E check \in {None, <<TRUE>>, <<FALSE>>},
          res \in [output : {<<>>, <<"o", "k">>, <<"n", "o", nl>>}, exit_code : {0, 1, 127}] :
          \E w \in {run_process_in_docker_container(WorldWith(<<>>, {}), "call", <<"make">>,
                                                    check = None \/ check = <<TRUE>>, root, res)} :
             Called("run_process_in_docker_container", check, w.log, w.raised, <<w.out, w.code>>)
    /\ UNCHANGED <<pathVars, credVars, envVars, configVars, docker_container, clientVars>>

\* another process removes the session's current container from the daemon
ExternalRemove ==
    /\ CurrentIdx # 0
    /\ daemon' = SelectSeq(daemon, LAMBDA c : c.name # docker_container)
    /\ UNCHANGED <<pathVars, credVars, now, host_config, debug, configVars, docker_container, callVars, calls,
                   clientVars>>

\* the state after WcEnvManager() with the default configuration, on a daemon
\* with no container, a running one left by an earlier session, that one and
\* a container of another name format, or a stopped and a running one; and
\* with none, one or two images of the base repository
InitRuntime ==
    /\ PathUnused
    /\ CredentialsUnused
    /\ daemon \in {<<>>,
                   <<[NewContainer(<<"w", "0", "7">>, 1) EXCEPT !.created_here = FALSE]>>,
                   <<[NewContainer(<<"w", "0", "7">>, 2) EXCEPT !.created_here = FALSE],
                     [NewContainer(<<"x", "0", "7">>, 1) EXCEPT !.created_here = FALSE]>>,
                   <<[NewContainer(<<"w", "5">>, 2) EXCEPT !.created_here = FALSE, !.running = FALSE],
                     [NewContainer(<<"w", "0", "7">>, 1) EXCEPT !.created_here = FALSE]>>}
    /\ now = 0
    /\ host_config = [isdir |-> FALSE, has_paths_yml |-> FALSE, paths |-> <<>>]
    /\ debug = TRUE
    /\ images \in {<<>>, <<BaseImage>>,
                   <<BaseImage, [id |-> 2, tags |-> {Ref(BaseRepo, BaseTags[2])}]>>}
    /\ docker_image = get_latest_docker_image(BaseRepo)
    /\ args = [k \in DOMAIN DefaultConfig |-> None]
    /\ docker_container_name_format = DefaultConfig.docker_container_name_format
    /\ paths_to_mount_to_docker_container = DefaultConfig.paths_to_mount_to_docker_container
    /\ python_packages_from_pypi = DefaultConfig.python_packages_from_pypi
    /\ python_packages_from_github = DefaultConfig.python_packages_from_github
    /\ python_packages_from_host = DefaultConfig.python_packages_from_host
    /\ paths_to_copy_to_docker_container = DefaultConfig.paths_to_copy_to_docker_container
    /\ docker_container = get_latest_docker_container
    /\ docker_container_status = IF daemon = <<>> THEN None ELSE StatusOf(daemon[1])
    /\ CallIdle

NextRuntime ==
    \/ SetDockerImage
    \/ PullDockerImage
    \/ BuildBaseDockerImage
    \/ RemoveDockerImage
    \/ CreateDockerContainer
    \/ StopDockerContainer
    \/ RemoveDockerContainer
    \/ RemoveDockerContainers
    \/ GetDockerContainerStats
    \/ RunProcessInDockerContainer
    \/ ExternalRemove

SpecRuntime == InitRuntime /\ [][NextRuntime]_vars

-----------------------------------------------------------------------------
(* Credentials: SpecCredentials.  The credential check is exercised by       *)
(* tests/test_core.py (test_check_credentials); its code is not in           *)
(* wc_env_manager/core.py, so the two operators follow the specification's   *)
(* contract of CredentialChecker.                                            *)

\* the credential files a session can be configured with
CredentialPaths == {"", "/k/pwd", "/k/id_rsa"}

\* mutant: a file that exists counts as present, readable or not
check_exists(ref, files) ==
    IF ref # None /\ files[ref[1]] # "missing" THEN ref ELSE None

\* check(path) -> CredentialRef: present only if the path exists and is
\* readable; absent for a missing or unreadable file and for an empty path
check(ref, files) ==
    IF ref # None /\ ref[1] # "" /\ files[ref[1]] = "readable" THEN ref ELSE None

\* mutant: every credential must be present
requireAll(refs) ==
    IF \E i \in 1..Len(refs) : refs[i] = None
    THEN Exc("MissingCredentialsError", "no credentials", <<>>)
    ELSE NoErr

\* requireAny(refs): fails with MissingCredentialsError if every ref is absent
requireAny(refs) ==
    IF \A i \in 1..Len(refs) : refs[i] = None
    THEN Exc("MissingCredentialsError", "no credentials", <<>>)
    ELSE NoErr

\* check_credentials(): each configured credential is replaced by its check
CheckCredentials ==
    /\ pc = "idle"
    /\ calls < MaxCalls
    /\ credentials' = [i \in 1..Len(credentials) |-> check(credentials[i], host_files)]
    /\ Called("check_credentials", None, <<>>, NoErr, None)
    /\ UNCHANGED <<pathVars, envVars, configVars, docker_container, clientVars, host_files>>

\* the session requires a credential for the operation it is asked to do
RequireCredentials ==
    /\ pc = "idle"
    /\ calls < MaxCalls
    /\ Called("require_credentials", None, <<>>, requireAny(credentials), None)
    /\ UNCHANGED <<pathVars, envVars, configVars, docker_container, clientVars, credVars>>

\* a session configured with a password file and an SSH key, each omitted or
\* a path, on a host where each file is missing, unreadable or readable
InitCredentials ==
    /\ PathUnused
    /\ paths_to_mount_to_docker_container = <<>>
    /\ SessionUnused
    /\ credentials \in [1..2 -> {None} \cup {<<p>> : p \in CredentialPaths}]
    /\ host_files \in {f \in [CredentialPaths -> {"missing", "unreadable", "readable"}] :
                          f[""] = "missing"}

NextCredentials ==
    \/ CheckCredentials
    \/ RequireCredentials

SpecCredentials == InitCredentials /\ [][NextCredentials]_vars

-----------------------------------------------------------------------------
(* Properties of the path conversions (SpecPath) *)

\* the resolved host path the conversion works on
ResolvedHostPath == abspath(path_arg)

\* p is a prefix of s, character by character
IsStringPrefix(p, s) ==
    /\ Len(p) <= Len(s)
    /\ \A k \in 1..Len(p) : s[k] = p[k]

\* p is a prefix of s that ends at a directory boundary of s
IsDirPrefix(p, s) ==
    /\ IsStringPrefix(p, s)
    /\ (Len(s) = Len(p) \/ s[Len(p) + 1] = sep)

MountIdx == 1..Len(paths_to_mount_to_docker_container)

HostOf(i) == abspath(paths_to_mount_to_docker_container[i].host)

BindOf(i) == paths_to_mount_to_docker_container[i].bind

HostConverted == path_call \in {"h2c", "rt"} /\ path_res.raised = NoError

ContainerConverted == path_call = "c2h" /\ path_res.raised = NoError

\* the mount entries that match the resolved host path
MatchingHostEntries == {j \in MountIdx : IsDirPrefix(HostOf(j), ResolvedHostPath)}

\* C1: host-to-container conversion is built from the longest host mount path
\* that matches the host path, whatever the order of the mount table.
C1_LongestPrefixWins ==
    (HostConverted /\ Cardinality(MatchingHostEntries) >= 2) =>
        /\ path_res.entry \in MatchingHostEntries
        /\ \A j \in MatchingHostEntries : Len(HostOf(j)) <= Len(HostOf(path_res.entry))

\* C2: a conversion only goes through a mount entry whose path equals the
\* given path or is followed in it by a path separator.
C2_DirectoryBoundaryMatch ==
    /\ HostConverted => IsDirPrefix(HostOf(path_res.entry), ResolvedHostPath)
    /\ ContainerConverted => IsDirPrefix(BindOf(path_res.entry), path_arg)

\* C3: for a resolved host path h that matches exactly one mount entry,
\* converting to the container and back returns h.
C3_RoundTrip ==
    (/\ path_call = "rt"
     /\ path_arg = ResolvedHostPath
     /\ Cardinality(MatchingHostEntries) = 1)
        => (rt_res.raised = NoError /\ rt_res.ret = path_arg)

C23_ConversionResolvesInput ==
    path_call = "h2c" =>
        path_res = convert_host_to_container_path(abspath(expanduser(path_arg)))

-----------------------------------------------------------------------------
(* Claims about provisioning (Spec) and about selecting containers (SpecContainers) *)

\* a call of the session is the step from the unprimed to the primed state
CallStep(op) == calls' = calls + 1 /\ last_call'.op = op

InSetup == last_call.op = "setup_docker_container"

InstallSteps == {"pypi", "github", "host"}

\* place of a step in the order the claims state
Rank(step) == StepIndex(SetupSteps, step)

\* steps that have called a capability in the call in progress or last made
StepsLogged == {log[i].step : i \in 1..Len(log)}

\* position of the exit entry that ends the copy entered at log[i]
ExitOf(i) == CHOOSE j \in (i + 1)..Len(log) :
                 /\ log[j].ev = "exit_copy"
                 /\ \A k \in (i + 1)..(j - 1) : log[k].ev # "exit_copy"

\* copies entered with overwrite=False whose destination was in the container
RefusedCopies ==
    {i \in 1..Len(log) : log[i].ev = "enter_copy" /\ ~log[i].overwrite /\ log[i].exists}

\* the existence probe of the copy entered at log[i] ran and exited with 0
ProbeAnswered(i) == log[i + 1].ev = "exec" /\ log[i + 1].code = 0

\* C5: a copy with overwrite=False whose destination already exists in the
\* container ends with an exception, never invokes docker cp and leaves the
\* container's files as they were; the exception is the already-exists error
\* whenever the existence probe itself ran to exit code 0.
C5_NoWriteWhenExists ==
    \A i \in RefusedCopies :
        /\ \E j \in (i + 1)..Len(log) : log[j].ev = "exit_copy"
        /\ \A k \in i..ExitOf(i) : log[k].ev # "cp"
        /\ log[ExitOf(i)].err # NoErr
        /\ log[ExitOf(i)].files = log[i].files
        /\ ProbeAnswered(i) => log[ExitOf(i)].err = AlreadyExists(log[i].path)
        /\ last_call.op = "copy_path_to_docker_container" =>
              /\ status = "raised"
              /\ daemon[CurrentIdx].files = log[i].files

C5_Witness ==
    /\ last_call.op = "copy_path_to_docker_container"
    /\ RefusedCopies # {}
    /\ raised = AlreadyExists(<<sep, "d">>)
    /\ <<sep, "d">> \in daemon[CurrentIdx].files

\* steps that call a capability whenever they run
Required(step) ==
    CASE step = "copy_paths" -> paths_to_copy_to_docker_container # <<>>
      [] step = "ssh_test" -> debug
      [] OTHER -> TRUE

\* the steps before `step` have all run and no step from `step` on has started
RanUpTo(step) ==
    \A k \in 1..Len(SetupSteps) :
        /\ (k < Rank(step) /\ Required(SetupSteps[k])) => SetupSteps[k] \in StepsLogged
        /\ k > Rank(step) => SetupSteps[k] \notin StepsLogged

DependencyLinks(step) == step # "pypi"

\* the package set setup_docker_container installs in a step
PackagesOf(step) ==
    CASE step = "pypi" -> python_packages_from_pypi
      [] step = "github" -> python_packages_from_github
      [] OTHER -> python_packages_from_host

\* the exceptions the install of a step can raise in the current container
InstallErrors(step) ==
    {install_python_packages_in_docker_container(
         WorldWith(<<>>, {}), step, PackagesOf(step), last_call.upgrade,
         DependencyLinks(step), e).raised : e \in InstallEnvs(WorldWith(<<>>, {}).files)} \ {NoErr}

\* C7: a failure in a package-install step of setup_docker_container reaches
\* the caller, no later step starts, and the exception identifies the step and
\* package set that failed: it is not an exception another install step of the
\* same session could have raised. (Stated of the runs that verified SSH access.)
C7_InstallFailureIdentifiesStep ==
    (InSetup /\ status = "raised" /\ failed_step \in InstallSteps /\ "ssh_test" \in StepsLogged) =>
        /\ pc = "idle"
        /\ raised # NoErr
        /\ RanUpTo(failed_step)
        /\ \A s \in InstallSteps \ {failed_step} : raised \notin InstallErrors(s)

\* 'pip install' commands the call has run in the container
PipCalls ==
    {i \in 1..Len(log) : /\ log[i].ev = "exec"
                         /\ log[i].cmd # <<>>
                         /\ log[i].cmd[1] = PipCmd(<<>>, FALSE, FALSE)[1]}

\* C8: with an empty mount table, a PyPI package list and empty GitHub and host
\* package lists, create_docker_container() followed by
\* setup_docker_container(upgrade=False) installs packages once, in the PyPI
\* step, and starts no install for the two empty package sets. (Stated of the
\* runs that verified SSH access.)
C8_OneInstallStep ==
    (/\ paths_to_mount_to_docker_container = <<>>
     /\ python_packages_from_pypi # ""
     /\ python_packages_from_github = ""
     /\ python_packages_from_host = ""
     /\ CurrentIdx # 0
     /\ daemon[CurrentIdx].created_here
     /\ InSetup
     /\ ~last_call.upgrade
     /\ "ssh_test" \in StepsLogged
     /\ status = "returned")
    => /\ StepsLogged \cap InstallSteps = {"pypi"}
       /\ Cardinality(PipCalls) = 1

\* the entry of the probe command in the call record
ProbeCalls == {i \in 1..Len(log) : log[i].ev = "exec" /\ log[i].cmd = SshProbeCmd}

Managed == {i \in 1..Len(daemon) : strptime_ok(daemon[i].name, docker_container_name_format)}

\* name is the name of a managed container with the greatest read time; None
\* if there is no managed container
IsLatest(name) ==
    IF Managed = {} THEN name = None
    ELSE \E i \in Managed : /\ daemon[i].name = name
                            /\ \A j \in Managed : daemon[j].read <= daemon[i].read

\* C10: get_latest_docker_container returns a managed container whose stats
\* read time is the greatest among the managed containers, whatever the
\* timestamps in the names, and None when no container is managed; the
\* constructor makes that container the current one.
C10_LatestByReadTime ==
    /\ last_call.op = "get_latest_docker_container" => IsLatest(ret_container)
    /\ last_call.op = "__init__" => IsLatest(docker_container)

C10_Witness ==
    /\ last_call.op = "get_latest_docker_container"
    /\ ret_container = <<"w", "5">>
    /\ \E j \in Managed : daemon[j].name = <<"w", "0", "7">> /\ daemon[j].read < 2

\* the SSH probe of the running setup answered with the success signal
ProbeSucceeded ==
    \E i \in 1..Len(log) :
        /\ log[i].step = "ssh_test"
        /\ log[i].ev = "exec"
        /\ log[i].code = 1
        /\ contains(DropLast(log[i].output), AuthenticatedPattern)

\* C24: setup_docker_container starts no package install unless the SSH probe
\* of the same run reported success; a run whose probe does not report
\* success ends with an error before the first install step.
C24_NoInstallWithoutProbeSuccess ==
    InSetup =>
        /\ (StepsLogged \cap InstallSteps # {}) => ProbeSucceeded
        /\ (pc \in InstallSteps \/ status = "returned") => ProbeSucceeded

\* the step that installs the known-hosts entry ran to its end
SshHostInstalled == pc = "ssh_host" /\ pc' # "ssh_host" /\ status' # "raised"

\* C25: installing the known-hosts entry with upgrade=True purges the stale
\* GitHub entries before it appends, so the file then holds exactly one batch
\* of GitHub entries however many installs came before; with upgrade=False it
\* purges nothing and appends one more batch.
C25_OneBatchAfterUpgrade ==
    [][SshHostInstalled =>
          /\ last_call.upgrade =>
                daemon'[CurrentIdx].known_hosts = [rsa |-> 1, other |-> 1]
          /\ ~last_call.upgrade =>
                daemon'[CurrentIdx].known_hosts =
                    [rsa |-> daemon[CurrentIdx].known_hosts.rsa + 1,
                     other |-> daemon[CurrentIdx].known_hosts.other + 1]]_vars

\* the mktemp calls of the install steps that made a file in the container
MktempCalls ==
    {i \in 1..Len(log) : /\ log[i].step \in InstallSteps
                         /\ log[i].ev = "exec"
                         /\ log[i].cmd = <<"mktemp">>
                         /\ log[i].code = 0}

\* the install step's own rm command failed
RmFailed(step) ==
    \E j \in 1..Len(log) :
        log[j].step = step /\ log[j].ev = "exec" /\ log[j].code > 0 /\ log[j].cmd[1] = "rm"

\* C27: when a package install has ended, by returning or by raising because
\* the copy or the pip command failed, the requirements file it made on the
\* host and the temporary file it made in the container are both removed.
C27_InstallRemovesTempFiles ==
    InSetup =>
        \A i \in MktempCalls :
            ~RmFailed(log[i].step) =>
                /\ HostTemp(log[i].step) \notin host_temps
                /\ DropLast(log[i].output) \notin daemon[CurrentIdx].files

-----------------------------------------------------------------------------
(* Claims about the managed listing, the constructor and create_docker_container *)

\* ds is a minute as %M reads it: one digit, or two digits from 00 to 59
IsMinute(ds) ==
    \/ Len(ds) = 1 /\ IsDigit(ds[1])
    \/ Len(ds) = 2 /\ ds[1] \in {"0", "1", "2", "3", "4", "5"} /\ IsDigit(ds[2])

\* name is a timestamp in the session's name format, a letter followed by
\* %M: that letter in either case, then a minute and nothing else
ParsesAsTimestamp(name) ==
    /\ Len(name) >= 2
    /\ lower(name[1]) = lower(docker_container_name_format[1])
    /\ IsMinute(Tail(name))

\* C11: get_docker_containers returns exactly the containers of the daemon's
\* listing, running or not, whose name parses against the name format as a
\* timestamp: each of them once, and no container whose name does not parse.
C11_ManagedListing ==
    last_call.op = "get_docker_containers" =>
        /\ \A i \in 1..Len(daemon) :
              ParsesAsTimestamp(daemon[i].name) <=>
                  (\E k \in 1..Len(ret_value) : ret_value[k] = daemon[i].name)
        /\ \A k \in 1..Len(ret_value) : \E i \in 1..Len(daemon) : daemon[i].name = ret_value[k]
        /\ \A k, l \in 1..Len(ret_value) : k # l => ret_value[k] # ret_value[l]

C11_Witness ==
    /\ last_call.op = "get_docker_containers"
    /\ Len(ret_value) = 1
    /\ \E i \in 1..Len(daemon) : ~daemon[i].running /\ daemon[i].name = ret_value[1]
    /\ \E i \in 1..Len(daemon) : daemon[i].name = <<"w", "0", "7", "7">>

\* the attribute of the session that a configuration key names
Attribute(key) ==
    CASE key = "docker_container_name_format" -> docker_container_name_format
      [] key = "paths_to_mount_to_docker_container" -> paths_to_mount_to_docker_container
      [] key = "paths_to_copy_to_docker_container" -> paths_to_copy_to_docker_container
      [] key = "python_packages_from_pypi" -> python_packages_from_pypi
      [] key = "python_packages_from_github" -> python_packages_from_github
      [] OTHER -> python_packages_from_host

\* C12: once the session is constructed, every configuration attribute holds
\* the constructor's argument if one was given (also an empty one) and the
\* configured default if the argument was None.
C12_ExplicitOverDefault ==
    Constructed =>
        \A key \in DOMAIN DefaultConfig :
            /\ args[key] # None => <<Attribute(key)>> = args[key]
            /\ args[key] = None => Attribute(key) = DefaultConfig[key]

C12_Witness ==
    /\ last_call.op = "__init__"
    /\ args.paths_to_mount_to_docker_container = <<<<>>>>
    /\ paths_to_mount_to_docker_container = <<>>
    /\ python_packages_from_pypi = ""
    /\ args.python_packages_from_github = None
    /\ python_packages_from_github = DefaultConfig.python_packages_from_github

\* the calls of containers.run in the call record
RunCalls == {i \in 1..Len(log) : log[i].ev = "run"}

\* C13: create_docker_container runs the container as the unprivileged
\* container user: the user passed to containers.run is never root.
C13_CreateAsContainerUser ==
    \A i \in RunCalls : log[i].user = container_user /\ log[i].user # root

\* C15: after create_docker_container returns, the session's current container
\* is the container the call created and returned, in place of any container
\* that was current before, and the status its handle reports is 'created'.
C15_CreatedIsCurrent ==
    (last_call.op = "create_docker_container" /\ status = "returned") =>
        /\ docker_container # None
        /\ docker_container = ret_container
        /\ \A i \in RunCalls : log[i].cmd[2] = docker_container
        /\ CurrentIdx = 1
        /\ daemon[CurrentIdx].created_here
        /\ docker_container_status = "created"

C15_Witness ==
    /\ last_call.op = "create_docker_container"
    /\ status = "returned"
    /\ docker_container_status = "created"
    /\ \E j \in Managed : daemon[j].name # docker_container /\ ~daemon[j].created_here

-----------------------------------------------------------------------------
(* Claims about images and the life of the current container (SpecRuntime) *)

\* C14: create_docker_container runs the container from the session's current
\* image: after any image operations, the image that the name handed to
\* containers.run resolves to is self._docker_image, when the session has one.
C14_CreateFromCurrentImage ==
    (last_call.op = "create_docker_container" /\ status = "returned" /\ docker_image # None) =>
        \A i \in RunCalls :
            /\ get_latest_docker_image(log[i].cmd[1]) # None
            /\ get_latest_docker_image(log[i].cmd[1])[1] = docker_image[1]

BuildFailed ==
    /\ last_call.op = "build_base_docker_image"
    /\ status = "raised"
    /\ log # <<>>
    /\ log[1].err.type \in {"requests.exceptions.ConnectionError", "docker.errors.APIError",
                            "docker.errors.BuildError"}

\* C17: build failures of different causes (daemon unreachable, Dockerfile
\* syntax, build execution) reach the caller as different error kinds: two
\* builds in a row that fail for different causes raise errors of different types.
C17_DistinctBuildErrorKinds ==
    [][(BuildFailed /\ BuildFailed' /\ calls' = calls + 1 /\ log[1].err.type # log'[1].err.type) =>
            raised.type # raised'.type]_vars

\* the command of run_process_in_docker_container ran and exited with a code
Exited == last_call.op = "run_process_in_docker_container" /\ log # <<>> /\ log[1].code >= 0

C19_ForcedOnlyOnRequest ==
    (last_call.op = "remove_docker_image" /\ last_call.arg # <<TRUE>>) =>
        \A i \in 1..Len(log) : log[i].ev = "images.remove" => ~log[i].cmd[2]

\* the session holds a container that the daemon no longer has
Gone == docker_container # None /\ CurrentIdx = 0

\* C20: when another process removes the current container, the session keeps
\* its reference and learns nothing; the next call that reaches the runtime for
\* the container (exec, stats, stop, remove) raises NotFound, it never returns.
C20_RemovalSurfacesOnNextCall ==
    [][/\ (CurrentIdx # 0 /\ CurrentIdx' = 0 /\ calls' = calls) =>
            /\ docker_container' = docker_container
            /\ docker_container_status' = docker_container_status
            /\ status' = status
            /\ raised' = raised
       /\ (Gone /\ calls' = calls + 1
           /\ last_call'.op \in {"run_process_in_docker_container", "get_docker_container_stats",
                                 "stop_docker_container", "remove_docker_container"}) =>
            /\ status' = "raised"
            /\ raised'.type = "docker.errors.NotFound"
            /\ docker_container' = docker_container]_vars

C20_Witness ==
    /\ Gone
    /\ last_call.op = "run_process_in_docker_container"
    /\ status = "raised"
    /\ raised.type = "docker.errors.NotFound"

\* C26: after a build that returns, every base tag names the built image and
\* no other, and the session's current image is the handle fetched again by
\* repo:first-tag after the tagging, so it carries those tags; the call
\* returns that handle. A build that raises leaves the current image and the
\* daemon's images as they were.
C26_BuiltImageTaggedAndRefetched ==
    [][CallStep("build_base_docker_image") =>
          /\ status' = "returned" =>
                /\ docker_image' # None
                /\ \A i \in 1..Len(images) : images[i].id # docker_image'[1]
                /\ \A k \in 1..Len(BaseTags) : Ref(BaseRepo, BaseTags[k]) \in docker_image'[2]
                /\ \A i \in 1..Len(images') :
                      IF images'[i].id = docker_image'[1]
                      THEN images'[i].tags = docker_image'[2]
                      ELSE \A k \in 1..Len(BaseTags) : Ref(BaseRepo, BaseTags[k]) \notin images'[i].tags
                /\ ret_value' = docker_image'
          /\ status' = "raised" =>
                /\ docker_image' = docker_image
                /\ images' = images]_vars

\* a build on a daemon that had the base tags on older images
C26_Witness ==
    /\ last_call.op = "build_base_docker_image"
    /\ status = "returned"
    /\ Len(images) = 3
    /\ docker_image # None
    /\ images[3].id = docker_image[1]
    /\ images[1].tags = {}

\* the containers of a daemon whose names do not parse against the name format
Unmanaged(d) == SelectSeq(d, LAMBDA c : ~ParsesAsTimestamp(c.name))

\* C28: remove_docker_containers removes every container whose name parses
\* against the name format and no other, and leaves the session without a
\* current container; when the removal of a container fails, the current
\* container is what it was, and no unmanaged container is touched either.
C28_RemoveAllManagedOnly ==
    [][CallStep("remove_docker_containers") =>
          /\ Unmanaged(daemon') = Unmanaged(daemon)
          /\ status' = "returned" =>
                /\ daemon' = Unmanaged(daemon)
                /\ docker_container' = None
          /\ status' = "raised" =>
                /\ docker_container' = docker_container
                /\ daemon' # Unmanaged(daemon)]_vars

\* a managed and an unmanaged container were on the daemon; only the
\* unmanaged one is left
C28_Witness ==
    /\ last_call.op = "remove_docker_containers"
    /\ status = "returned"
    /\ docker_container = None
    /\ Len(daemon) = 1
    /\ ~ParsesAsTimestamp(daemon[1].name)
    /\ \E i \in 1..Len(log) : log[i].ev = "remove" /\ ParsesAsTimestamp(log[i].cmd[1])

-----------------------------------------------------------------------------
(* Claims about credentials (SpecCredentials) *)

\* C21: the credential check never raises: it keeps a configured path whose
\* file exists and is readable, and makes the credential absent (None) when
\* the file is missing, unreadable, or the path is empty.
C21_CheckDegradesToAbsent ==
    [][CallStep("check_credentials") =>
          /\ status' = "returned"
          /\ raised' = NoErr
          /\ \A i \in 1..Len(credentials) :
                /\ (credentials[i] # None /\ host_files[credentials[i][1]] = "readable") =>
                       credentials'[i] = credentials[i]
                /\ (credentials[i] = None \/ host_files[credentials[i][1]] # "readable") =>
                       credentials'[i] = None]_vars

\* checked with an unreadable password file and a readable key
C21_Witness ==
    /\ last_call.op = "check_credentials"
    /\ status = "returned"
    /\ calls = 1
    /\ host_files["/k/pwd"] = "unreadable"
    /\ host_files["/k/id_rsa"] = "readable"
    /\ credentials = <<None, <<"/k/id_rsa">>>>

\* C22: requiring credentials raises MissingCredentialsError exactly when
\* every credential is absent; with at least one present it returns.
C22_RequireAnyFailsIffAllAbsent ==
    last_call.op = "require_credentials" =>
        /\ (\A i \in 1..Len(credentials) : credentials[i] = None) =>
              (status = "raised" /\ raised.type = "MissingCredentialsError")
        /\ (\E i \in 1..Len(credentials) : credentials[i] # None) =>
              (status = "returned" /\ raised = NoErr)

\* one credential absent after the check, one present: the requirement is met
C22_Witness ==
    /\ last_call.op = "require_credentials"
    /\ status = "returned"
    /\ calls = 2
    /\ credentials[1] = None
    /\ credentials[2] # None

====
